---------------------------- MODULE Spec2Model ----------------------------
(***************************************************************************)
(* Coarse-grained field analysis of a 2D particle trajectory:              *)
(*   analysis/css.py  shear strain and displacement vorticity grids,       *)
(*   analysis/cuu.py  displacement grids and radial profiles,              *)
(* the choice of time origins, of the query grid and of the modes made by  *)
(* the scripts, and the tools they rest on:                                *)
(*   init.py            get_env and StdOut,                                *)
(*   plot/mpl_tools.py  FittingLine and GridCircle.                        *)
(*                                                                         *)
(* Lengths are measured in units of half a grid-box separation, so that    *)
(* box_size = 2*Ncases, dL = 2, and the query grid points and the particle *)
(* positions are integers.  Coarse-grained quantities are exact rationals  *)
(* <<numerator, denominator>>.                                             *)
(***************************************************************************)
EXTENDS Integers, Sequences, FiniteSets, TLC

VARIABLES u_traj, ENDPOINT, sigma, pc, positions, neighbours_grid, samples, ret, main,
          query, radial, modes, envcall, std, fit, circle, run

\* the state of the field analysis, and the state of the scripts and tools
analysis == <<u_traj, ENDPOINT, sigma, pc, positions, neighbours_grid, samples, ret, main>>
tools == <<query, radial, modes, envcall, std, fit, circle, run>>
vars == <<analysis, tools>>

(***************************************************************************)
(* Bounds of the model.                                                    *)
(***************************************************************************)
\* number of particles of the simulation (parameters['N'])
NParticles == 2
\* number of boxes in each direction of the query grid (N_CASES)
Ncases == 2
\* largest number of frames of the trajectory files (Nentries)
MaxEntries == 5
\* largest INTERVAL_MAXIMUM
MaxIntMax == 3

\* cut-off radius: R_CUT defaults to 2, times the particle diameter a = 1
R_CUT == 2

Particles == 1..NParticles
\* length scales of the coarse-graining function tried (SIGMA)
Sigmas == {1, 2}
\* wrapped positions the particles may start from, and their displacements
\* between the two frames of the unwrapped trajectory
Sites == {<<-1, -1>>, <<0, -1>>, <<-2, -2>>, <<1, 0>>}
Disps == {<<0, 0>>, <<1, 0>>, <<-1, 1>>}

(***************************************************************************)
(* Exact arithmetic.                                                       *)
(***************************************************************************)
Abs(n) == IF n < 0 THEN -n ELSE n

RECURSIVE GCD(_, _)
GCD(a, b) == IF b = 0 THEN a ELSE GCD(b, a % b)

\* the rational n/d in lowest terms with a positive denominator (d # 0)
Rat(n, d) ==
    LET g == GCD(Abs(n), Abs(d))
        s == IF d < 0 THEN -1 ELSE 1
    IN  <<(s * n) \div g, (s * d) \div g>>

RInt(n) == <<n, 1>>
RAdd(p, q) == Rat(p[1] * q[2] + q[1] * p[2], p[2] * q[2])
RSub(p, q) == Rat(p[1] * q[2] - q[1] * p[2], p[2] * q[2])
RMul(p, q) == Rat(p[1] * q[1], p[2] * q[2])
RDiv(p, q) == Rat(p[1] * q[2], p[2] * q[1])
RHalf(p) == Rat(p[1], 2 * p[2])

RECURSIVE SumOver(_, _)
\* np.sum of the array f restricted to the index set S
SumOver(S, f) ==
    IF S = {} THEN 0
    ELSE LET i == CHOOSE j \in S : TRUE IN f[i] + SumOver(S \ {i}, f)

\* int(x) of a rational x: truncation towards zero
int(q) == IF q[1] >= 0 THEN q[1] \div q[2] ELSE -((-q[1]) \div q[2])

\* the integer a rational with denominator 1 stands for
Whole(q) == q[1] \div q[2]

\* np.linspace(start, stop, num, endpoint=True) of integers, as rationals
linspace(start, stop, num) ==
    [i \in 1..num |->
        IF num = 1 THEN RInt(start)
        ELSE Rat(start * (num - 1) + (i - 1) * (stop - start), num - 1)]

(***************************************************************************)
(* Run parameters.                                                         *)
(***************************************************************************)
box_size == 2 * Ncases
dL == box_size \div Ncases
prep_frames == 0

\* the two frames of the unwrapped trajectory, the time origin and the lag
Frames == {0, 1}
Origins == {0}
Lags == {1}

\* grid points, for x in linspace(...) for y in linspace(...): x-major; in
\* these units the coordinates are whole numbers
grid_axis == linspace(-(Ncases - 1), Ncases - 1, Ncases)
grid_points ==
    [k \in 1..(Ncases * Ncases) |->
        <<Whole(grid_axis[((k - 1) \div Ncases) + 1]),
          Whole(grid_axis[((k - 1) % Ncases) + 1])>>]

(***************************************************************************)
(* Collaborators whose code is outside the analysed files.                 *)
(***************************************************************************)
\* minimum-image convention: ((raw_offset + box/2) mod box) - box/2
MinImage(x, box) == ((x + box \div 2) % box) - box \div 2
relative_positions(pos, point, box) ==
    <<MinImage(pos[1] - point[1], box), MinImage(pos[2] - point[2], box)>>

Norm2(v) == v[1] * v[1] + v[2] * v[2]

\* wrapped trajectory: the unwrapped positions brought back into the box
w_traj(frame) ==
    [i \in Particles |-> relative_positions(u_traj[frame - prep_frames][i], <<0, 0>>, box_size)]

\* NeighboursGrid(positions, box_size, r_cut): the index of one frame
NeighboursGrid(pos, box, cutoff) == [positions |-> pos, box_size |-> box, r_cut |-> cutoff]

\* neighbours_grid.get_neighbours(point): particles within r_cut of point
\* (periodic distance)
get_neighbours(ng, point) ==
    {i \in DOMAIN ng.positions :
        Norm2(relative_positions(ng.positions[i], point, ng.box_size)) <= ng.r_cut * ng.r_cut}

\* radial kernel: decays with the distance on the length scale sig, is
\* exactly 0 beyond the cut-off and may vanish inside it (a Gaussian
\* underflows when sig is small); d2 is the squared distance
Kernel(d2, sig, cutoff) ==
    IF d2 > cutoff * cutoff THEN 0
    ELSE LET w == 4 - (d2 \div (sig * sig)) IN IF w < 0 THEN 0 ELSE w

\* CoarseGraining(...).average(var): sum_i f_i var_i / sum_i f_i, and 0
\* when the factors sum to 0; factors and var are indexed by the neighbours
Average(factors, var) ==
    LET W == SumOver(DOMAIN factors, factors)
    IN  IF W = 0 THEN RInt(0)
        ELSE Rat(SumOver(DOMAIN factors, [i \in DOMAIN factors |-> factors[i] * var[i]]), W)

(***************************************************************************)
(* analysis/css.py: strain_vorticity                                       *)
(***************************************************************************)
\* what a call gives back: the returned value, or the exception it raised,
\* with the frames of the unwrapped trajectory it has read
Returned(v, rd) == [kind |-> "return", exc |-> "", value |-> v, reads |-> rd]
Raised(e, rd) == [kind |-> "raise", exc |-> e, value |-> <<>>, reads |-> rd]
NotCalled == [kind |-> "none", exc |-> "", value |-> <<>>, reads |-> {}]

\* if Nwrcut == 0
NoNeighbours_Never(Nwrcut) == FALSE
NoNeighbours(Nwrcut) == Nwrcut = 0

\* if rho == 0
NoDensity(rho) == rho = RInt(0)

\* strain = 0.5*((Ay*Aux + Ax*Auy)/((rho*sigma)**2)
\*     - (Auxy + Auyx)/(rho*(sigma**2)))
ShearStrain_Sum(Ax, Ay, Aux, Auy, Auxy, Auyx, rho, sig) ==
    RHalf(RAdd(RDiv(RAdd(RMul(Ay, Aux), RMul(Ax, Auy)),
                    RMul(RMul(rho, RInt(sig)), RMul(rho, RInt(sig)))),
               RDiv(RAdd(Auxy, Auyx), RMul(rho, RInt(sig * sig)))))
ShearStrain(Ax, Ay, Aux, Auy, Auxy, Auyx, rho, sig) ==
    RHalf(RSub(RDiv(RAdd(RMul(Ay, Aux), RMul(Ax, Auy)),
                    RMul(RMul(rho, RInt(sig)), RMul(rho, RInt(sig)))),
               RDiv(RAdd(Auxy, Auyx), RMul(rho, RInt(sig * sig)))))

\* vorticity = (Ax*Auy - Ay*Aux)/((rho*sigma)**2)
\*     - (Auyx - Auxy)/(rho*(sigma**2))
Vorticity_Swapped(Ax, Ay, Aux, Auy, Auxy, Auyx, rho, sig) ==
    RSub(RDiv(RSub(RMul(Ax, Auy), RMul(Ay, Aux)),
              RMul(RMul(rho, RInt(sig)), RMul(rho, RInt(sig)))),
         RDiv(RSub(Auxy, Auyx), RMul(rho, RInt(sig * sig))))
Vorticity(Ax, Ay, Aux, Auy, Auxy, Auyx, rho, sig) ==
    RSub(RDiv(RSub(RMul(Ax, Auy), RMul(Ay, Aux)),
              RMul(RMul(rho, RInt(sig)), RMul(rho, RInt(sig)))),
         RDiv(RSub(Auyx, Auxy), RMul(rho, RInt(sig * sig))))

\* (... - point + box_size/2)%box_size - box_size/2, of one coordinate of
\* positions - point: the position with point as the centre of the frame
centred_Raw(offset, box) == offset
centred(offset, box) == ((offset + box \div 2) % box) - box \div 2

strain_vorticity(point, time, dt, pos, traj, sig, r_cut, box, ng) ==
    LET wrcut == get_neighbours(ng, point)
        Nwrcut == Cardinality(wrcut)
        \* (positions[wrcut] - point + box_size/2) % box_size - box_size/2
        pos_wrcut == [i \in wrcut |->
            <<centred(pos[i][1] - point[1], box), centred(pos[i][2] - point[2], box)>>]
        pos0_wrcut == [i \in wrcut |-> traj[time][i]]
        pos1_wrcut == [i \in wrcut |-> traj[time + dt][i]]
        dis_wrcut == [i \in wrcut |->
            <<pos1_wrcut[i][1] - pos0_wrcut[i][1], pos1_wrcut[i][2] - pos0_wrcut[i][2]>>]
        read == {time, time + dt}
        \* CoarseGraining(sqrt(sum(pos_wrcut**2)), sigma, r_cut)
        factors == [i \in wrcut |-> Kernel(Norm2(pos_wrcut[i]), sig, r_cut)]
        rho == Average(factors, [i \in wrcut |-> 1])
        Ax == Average(factors, [i \in wrcut |-> pos_wrcut[i][1]])
        Ay == Average(factors, [i \in wrcut |-> pos_wrcut[i][2]])
        Aux == Average(factors, [i \in wrcut |-> dis_wrcut[i][1]])
        Auy == Average(factors, [i \in wrcut |-> dis_wrcut[i][2]])
        Auxy == Average(factors, [i \in wrcut |-> dis_wrcut[i][1] * pos_wrcut[i][2]])
        Auyx == Average(factors, [i \in wrcut |-> dis_wrcut[i][2] * pos_wrcut[i][1]])
    IN  IF NoNeighbours(Nwrcut) THEN Returned(<<RInt(0), RInt(0)>>, {})
        \* itemgetter(*wrcut) of no index at all raises TypeError
        ELSE IF wrcut = {} THEN Raised("TypeError", {})
        ELSE IF NoDensity(rho) THEN Returned(<<RInt(0), RInt(0)>>, read)
        ELSE Returned(<<ShearStrain(Ax, Ay, Aux, Auy, Auxy, Auyx, rho, sig),
                        Vorticity(Ax, Ay, Aux, Auy, Auxy, Auyx, rho, sig)>>, read)

(***************************************************************************)
(* analysis/css.py: strain_vorticity_grid                                  *)
(***************************************************************************)
reshape(Grid, n, m) == [i \in 1..n |-> [j \in 1..m |-> Grid[(i - 1) * m + j]]]
transpose(M) == [j \in 1..Len(M[1]) |-> [i \in 1..Len(M) |-> M[i][j]]]
reversed(M) == [i \in 1..Len(M) |-> M[Len(M) + 1 - i]]

\* np.transpose(np.reshape(Grid, (Ncases, Ncases)))[::-1]
correct_grid_NoFlip(Grid) == transpose(reshape(Grid, Ncases, Ncases))
correct_grid(Grid) == reversed(transpose(reshape(Grid, Ncases, Ncases)))

\* positions = w_traj[prep_frames + time + dt*ENDPOINT]
\* neighbours_grid = NeighboursGrid(positions, box_size, r_cut)
SVG_Build(time, dt) ==
    /\ pc = "svg_start"
    /\ positions' = w_traj(prep_frames + time + dt * (IF ENDPOINT THEN 1 ELSE 0))
    /\ neighbours_grid' = NeighboursGrid(positions', box_size, R_CUT)
    /\ pc' = "svg_map"
    /\ UNCHANGED <<u_traj, ENDPOINT, sigma, samples, ret, main, tools>>

\* one step of map(lambda point: strain_vorticity(...), grid_points)
SVG_Sample(time, dt) ==
    /\ pc = "svg_map"
    /\ Len(samples) < Len(grid_points)
    /\ LET s == strain_vorticity(grid_points[Len(samples) + 1], time, dt, positions,
                                 u_traj, sigma, R_CUT, box_size, neighbours_grid)
       IN  /\ samples' = Append(samples, s)
           /\ IF s.kind = "raise"
              THEN pc' = "done" /\ ret' = Raised(s.exc, s.reads)
              ELSE pc' = pc /\ ret' = ret
    /\ UNCHANGED <<u_traj, ENDPOINT, sigma, positions, neighbours_grid, main, tools>>

\* return correct_grid(Sgrid), correct_grid(Cgrid)
SVG_Return ==
    /\ pc = "svg_map"
    /\ Len(samples) = Len(grid_points)
    /\ ret' = Returned(<<correct_grid([k \in 1..Len(samples) |-> samples[k].value[1]]),
                         correct_grid([k \in 1..Len(samples) |-> samples[k].value[2]])>>, {})
    /\ pc' = "done"
    /\ UNCHANGED <<u_traj, ENDPOINT, sigma, positions, neighbours_grid, samples, main, tools>>

(***************************************************************************)
(* analysis/cuu.py: displacement and displacement_grid                     *)
(***************************************************************************)
\* names bound in module cuu once it is imported: its imports, its
\* functions and its module-level assignments
cuu_globals ==
    {"naming", "get_env", "Dat", "Gsd", "relative_positions", "wo_mean", "g2Dto1D",
     "NeighboursGrid", "corField2D_scalar_average", "corField2D_vector_average_Cnn",
     "SquareUniformCG", "CoarseGraining", "displacement", "displacement_grid",
     "plot_correlation", "_r_min", "_r_max", "_Cuu_min", "_Cuu_max", "_Cww_min",
     "_Cww_max", "_Cdd_min", "_Cdd_max", "_Cee_min", "_Cee_max"}
py_builtins == {"len", "tuple", "list", "map"}

\* local names of displacement once the statement assigning them has run
displacement_locals ==
    {"point", "time", "dt", "positions", "u_traj", "dL", "box_size", "neighbours_grid",
     "wrcut", "Nwrcut", "pos_wrcut", "pos0_wrcut", "pos1_wrcut", "dis_wrcut",
     "rdis_wrcut", "coarse_graining", "displacement", "relative_displacement",
     "density", "norm_displacement", "displacement_direction"}
displacement_grid_locals ==
    {"box_size", "Ncases", "grid_points", "time", "dt", "prep_frames", "w_traj",
     "u_traj", "dL", "startTime0", "positions", "neighbours_grid", "ndgrid", "ugrid",
     "wgrid", "egrid", "correct_grid"}

\* evaluating a statement that reads these names raises NameError
Unbound(names, locals) == \E n \in names : n \notin (locals \cup cuu_globals \cup py_builtins)

Zero2 == <<RInt(0), RInt(0)>>

RECURSIVE RSumOver(_, _)
RSumOver(S, f) ==
    IF S = {} THEN RInt(0)
    ELSE LET i == CHOOSE j \in S : TRUE IN RAdd(f[i], RSumOver(S \ {i}, f))

\* np.mean(arr, axis=0) of an array of integer vectors
MeanVec(arr) ==
    <<Rat(SumOver(DOMAIN arr, [i \in DOMAIN arr |-> arr[i][1]]), Cardinality(DOMAIN arr)),
      Rat(SumOver(DOMAIN arr, [i \in DOMAIN arr |-> arr[i][2]]), Cardinality(DOMAIN arr))>>

\* wo_mean(arr): the array with its own mean subtracted
wo_mean(arr) ==
    [i \in DOMAIN arr |->
        <<RSub(RInt(arr[i][1]), MeanVec(arr)[1]), RSub(RInt(arr[i][2]), MeanVec(arr)[2])>>]

\* SquareUniformCG(dL).factors: 1 in the square box of size dL around the
\* point, 0 outside (lengths are doubled to keep dL/2 whole)
SquareUniformCG(cell, pos) ==
    [i \in DOMAIN pos |->
        IF 2 * Abs(pos[i][1]) <= cell /\ 2 * Abs(pos[i][2]) <= cell THEN 1 ELSE 0]

\* CoarseGraining(factors, positions).average(var) of rational vectors
AverageVec(factors, var) ==
    LET W == SumOver(DOMAIN factors, factors)
        comp(c) == RSumOver(DOMAIN factors,
                            [i \in DOMAIN factors |-> RMul(RInt(factors[i]), var[i][c])])
    IN  IF W = 0 THEN Zero2
        ELSE <<RDiv(comp(1), RInt(W)), RDiv(comp(2), RInt(W))>>

\* v/|v|: each component of the unit vector is carried as its square with
\* its sign; 0/0 is nan, written <<0, 0>>
SignedSquare(q) == IF q[1] < 0 THEN RMul(RInt(-1), RMul(q, q)) ELSE RMul(q, q)
UnitVector(v) ==
    LET n2 == RAdd(RMul(v[1], v[1]), RMul(v[2], v[2]))
    IN  IF n2 = RInt(0) THEN <<<<0, 0>>, <<0, 0>>>>
        ELSE <<RDiv(SignedSquare(v[1]), n2), RDiv(SignedSquare(v[2]), n2)>>

displacement(point, time, dt, pos, traj, cell, box, ng) ==
    LET wrcut == get_neighbours(ng, point)
        Nwrcut == Cardinality(wrcut)
        pos_wrcut == [i \in wrcut |-> relative_positions(pos[i], point, box)]
        pos0_wrcut == [i \in wrcut |-> traj[time][i]]
        pos1_wrcut == [i \in wrcut |-> traj[time + dt][i]]
        dis_wrcut == [i \in wrcut |->
            <<RInt(pos1_wrcut[i][1] - pos0_wrcut[i][1]), RInt(pos1_wrcut[i][2] - pos0_wrcut[i][2])>>]
        rdis_wrcut == [i \in wrcut |->
            <<RSub(wo_mean(pos1_wrcut)[i][1], wo_mean(pos0_wrcut)[i][1]),
              RSub(wo_mean(pos1_wrcut)[i][2], wo_mean(pos0_wrcut)[i][2])>>]
        read == {time, time + dt}
        factors == SquareUniformCG(cell, pos_wrcut)
        u == AverageVec(factors, dis_wrcut)
        relative_displacement == AverageVec(factors, rdis_wrcut)
        \* (displacement != 0).any()*1
        density == IF u # Zero2 THEN 1 ELSE 0
        \* np.sqrt(np.sum(displacement**2)): the norm is carried as its square
        norm2 == RAdd(RMul(u[1], u[1]), RMul(u[2], u[2]))
        \* try: displacement/norm_displacemet; except: [0, 0]
        displacement_direction ==
            IF Unbound({"displacement", "norm_displacemet"}, displacement_locals)
            THEN Zero2 ELSE UnitVector(u)
    IN  IF Nwrcut = 0 THEN Returned(<<Zero2, Zero2, Zero2, Zero2>>, {})
        \* pos_wrcut = relative_positions(np.array(itemgetter(*wrcut)(positions), ...
        ELSE IF Unbound({"relative_positions", "np", "itemgetter"}, displacement_locals)
             THEN Raised("NameError", {})
        \* rdis_wrcut = wo_mean(pos1_wrcut) - wo_mean(pos0_wrcut)
        ELSE IF Unbound({"wo_mean"}, displacement_locals) THEN Raised("NameError", read)
        \* coarse_graining = CoarseGraining(SquareUniformCG(dL).factors, pos_wrcut)
        ELSE IF Unbound({"CoarseGraining", "SquareUniformCG"}, displacement_locals)
             THEN Raised("NameError", read)
        \* norm_displacement = np.sqrt(np.sum(displacement**2))
        ELSE IF Unbound({"np"}, displacement_locals) THEN Raised("NameError", read)
        \* return [density, norm_displacemet], displacement, ...
        ELSE IF Unbound({"density", "norm_displacemet", "displacement",
                         "relative_displacement", "displacement_direction"},
                        displacement_locals)
             THEN Raised("NameError", read)
        ELSE Returned(<<<<RInt(density), norm2>>, u, relative_displacement,
                        displacement_direction>>, read)

\* np.transpose(np.reshape(grid, (Ncases, Ncases, 2)), (1, 0, 2))[::-1]
correct_grid2(grid) == reversed(transpose(reshape(grid, Ncases, Ncases)))

displacement_grid(box, ncases, points, time, dt, prep, cell) ==
    LET pos == w_traj(prep + time + dt * (IF ENDPOINT THEN 1 ELSE 0))
        ng == NeighboursGrid(pos, box, cell \div 2)
        out == [k \in DOMAIN points |->
                    displacement(points[k], time, dt, pos, u_traj, cell, box, ng)]
        failed == {k \in DOMAIN points : out[k].kind = "raise"}
        first == CHOOSE k \in failed : \A j \in failed : k <= j
    IN  \* startTime0 = datetime.now()
        IF Unbound({"datetime"}, displacement_grid_locals) THEN Raised("NameError", {})
        ELSE IF Unbound({"w_traj", "get_env", "NeighboursGrid"}, displacement_grid_locals)
             THEN Raised("NameError", {})
        ELSE IF failed # {} THEN Raised(out[first].exc, out[first].reads)
        ELSE IF Unbound({"np", "tuple", "list", "map"}, displacement_grid_locals)
             THEN Raised("NameError", {})
        ELSE Returned(<<correct_grid2([k \in DOMAIN points |-> out[k].value[1]]),
                        correct_grid2([k \in DOMAIN points |-> out[k].value[2]]),
                        correct_grid2([k \in DOMAIN points |-> out[k].value[3]]),
                        correct_grid2([k \in DOMAIN points |-> out[k].value[4]])>>, {})

\* a call of displacement_grid for one time origin
DG_Call(time, dt) ==
    /\ pc = "dg_start"
    /\ ret' = displacement_grid(box_size, Ncases, grid_points, time, dt, prep_frames, dL)
    /\ pc' = "done"
    /\ UNCHANGED <<u_traj, ENDPOINT, sigma, positions, neighbours_grid, samples, main, tools>>

\* the frame and the neighbours grid displacement_grid hands to displacement
D_Build(time, dt) ==
    /\ pc = "d_start"
    /\ positions' = w_traj(prep_frames + time + dt * (IF ENDPOINT THEN 1 ELSE 0))
    /\ neighbours_grid' = NeighboursGrid(positions', box_size, dL \div 2)
    /\ pc' = "d_map"
    /\ UNCHANGED <<u_traj, ENDPOINT, sigma, samples, ret, main, tools>>

\* a call of displacement at the next grid point
D_Sample(time, dt) ==
    /\ pc = "d_map"
    /\ Len(samples) < Len(grid_points)
    /\ samples' = Append(samples, displacement(grid_points[Len(samples) + 1], time, dt,
                                               positions, u_traj, dL, box_size, neighbours_grid))
    /\ pc' = IF Len(samples') = Len(grid_points) THEN "done" ELSE pc
    /\ UNCHANGED <<u_traj, ENDPOINT, sigma, positions, neighbours_grid, ret, main, tools>>

(***************************************************************************)
(* analysis/css.py, script: lag time, initial frame and time origins       *)
(***************************************************************************)
RECURSIVE unique(_)
\* list(OrderedDict.fromkeys(seq)): the first occurrence of each element,
\* in the order of the sequence
unique_KeepAll(seq) == seq
unique(seq) ==
    IF seq = <<>> THEN <<>>
    ELSE LET front == unique(SubSeq(seq, 1, Len(seq) - 1))
             last == seq[Len(seq)]
         IN  IF \E j \in 1..Len(front) : front[j] = last THEN front ELSE Append(front, last)

\* dt = Nframes + dt if dt <= 0 else dt
lag_time_Magnitude(TIME, Nframes) == Abs(TIME)
lag_time(TIME, Nframes) == IF TIME <= 0 THEN Nframes + TIME ELSE TIME

\* init_frame = int(Nentries/2) if init_frame < 0 else init_frame
\* Nframes = Nentries - init_frame
\* dt = Nframes + dt if dt <= 0 else dt
Main_Resolve ==
    /\ main.pc = "resolve"
    /\ LET init_frame == IF main.INITIAL_FRAME < 0 THEN int(Rat(main.Nentries, 2))
                         ELSE main.INITIAL_FRAME
           Nframes == main.Nentries - init_frame
           dt == lag_time(main.TIME, Nframes)
       IN  main' = [main EXCEPT !.pc = "compute", !.init_frame = init_frame,
                                !.Nframes = Nframes, !.dt = dt]
    /\ UNCHANGED <<u_traj, ENDPOINT, sigma, pc, positions, neighbours_grid, samples, ret, tools>>

\* times = np.array(list(OrderedDict.fromkeys(map(lambda x: int(x),
\*     np.linspace(init_frame, Nentries - dt - 1, int_max)))))
Main_Times ==
    /\ main.pc = "compute"
    /\ LET origins == linspace(main.init_frame, main.Nentries - main.dt - 1, main.int_max)
       IN  main' = [main EXCEPT !.pc = "times",
                                !.times = unique([j \in 1..Len(origins) |-> int(origins[j])])]
    /\ UNCHANGED <<u_traj, ENDPOINT, sigma, pc, positions, neighbours_grid, samples, ret, tools>>

(***************************************************************************)
(* Inputs and specifications.                                              *)
(***************************************************************************)
NoMain == [pc |-> "none"]
Idle == [pc |-> "none"]
\* no script, call or figure other than the one a specification is about
IdleTools ==
    /\ query = Idle
    /\ radial = Idle
    /\ modes = Idle
    /\ envcall = Idle
    /\ std = Idle
    /\ fit = Idle
    /\ circle = Idle
    /\ run = Idle
NoGrid == NeighboursGrid(<<>>, 0, 0)

\* a trajectory of two frames: the particles start on Sites and move by Disps
Trajectories ==
    {[f \in Frames |-> [i \in Particles |->
        IF f = 0 THEN s[i] ELSE <<s[i][1] + d[i][1], s[i][2] + d[i][2]>>]] :
        s \in [Particles -> Sites], d \in [Particles -> Disps]}

InitGrid ==
    /\ u_traj \in Trajectories
    /\ ENDPOINT \in BOOLEAN
    /\ sigma \in Sigmas
    /\ pc \in {"svg_start", "dg_start"}
    /\ positions = <<>>
    /\ neighbours_grid = NoGrid
    /\ samples = <<>>
    /\ ret = NotCalled
    /\ main = NoMain
    /\ IdleTools

NextGrid ==
    \E time \in Origins, dt \in Lags :
        \/ SVG_Build(time, dt)
        \/ SVG_Sample(time, dt)
        \/ SVG_Return
        \/ DG_Call(time, dt)

\* strain_vorticity_grid or displacement_grid called for one time origin
SpecGrid == InitGrid /\ [][NextGrid]_vars

InitDisp ==
    /\ u_traj \in Trajectories
    /\ ENDPOINT \in BOOLEAN
    /\ sigma = 1
    /\ pc = "d_start"
    /\ positions = <<>>
    /\ neighbours_grid = NoGrid
    /\ samples = <<>>
    /\ ret = NotCalled
    /\ main = NoMain
    /\ IdleTools

NextDisp ==
    \E time \in Origins, dt \in Lags :
        \/ D_Build(time, dt)
        \/ D_Sample(time, dt)

\* displacement called at each grid point of one frame
SpecDisp == InitDisp /\ [][NextDisp]_vars

\* what the environment and the parameters file give the script
InitMain ==
    /\ main \in {[pc |-> "resolve", TIME |-> t, INITIAL_FRAME |-> f, int_max |-> m,
                  Nentries |-> n, init_frame |-> f, Nframes |-> 0, dt |-> t, times |-> <<>>] :
                    t \in (-2)..MaxEntries, f \in (-1)..MaxEntries, m \in 1..MaxIntMax,
                    n \in 1..MaxEntries}
    /\ u_traj = <<>>
    /\ ENDPOINT = FALSE
    /\ sigma = 1
    /\ pc = "main"
    /\ positions = <<>>
    /\ neighbours_grid = NoGrid
    /\ samples = <<>>
    /\ ret = NotCalled
    /\ IdleTools

NextMain == Main_Resolve \/ Main_Times

\* the script up to the choice of the time origins
SpecMain == InitMain /\ [][NextMain]_vars

(***************************************************************************)
(* Quantities the properties are stated with, computed from the frame, the *)
(* trajectory and the query point k of the grid.                           *)
(***************************************************************************)
Sampled == 1..Len(samples)
\* the sample just taken: samples are only appended, so a property of the
\* latest sample in every state is a property of every sample
Latest == {k \in Sampled : k = Len(samples)}
Neighbours(k) == get_neighbours(neighbours_grid, grid_points[k])
Rel(i, k) == relative_positions(positions[i], grid_points[k], box_size)
U(i) == <<u_traj[1][i][1] - u_traj[0][i][1], u_traj[1][i][2] - u_traj[0][i][2]>>
Weight(i, k) == Kernel(Norm2(Rel(i, k)), sigma, R_CUT)
WeightSum(k) == SumOver(Neighbours(k), [i \in Neighbours(k) |-> Weight(i, k)])
\* kernel-weighted average <q> at point k (WeightSum(k) # 0)
KAvg(k, q(_)) ==
    Rat(SumOver(Neighbours(k), [i \in Neighbours(k) |-> Weight(i, k) * q(i)]), WeightSum(k))
Rho(k) == IF WeightSum(k) = 0 THEN RInt(0) ELSE KAvg(k, LAMBDA i : 1)
RhoSigma2(k) == RMul(Rho(k), RInt(sigma * sigma))
MeanX(k) == KAvg(k, LAMBDA i : Rel(i, k)[1])
MeanY(k) == KAvg(k, LAMBDA i : Rel(i, k)[2])
MeanUx(k) == KAvg(k, LAMBDA i : U(i)[1])
MeanUy(k) == KAvg(k, LAMBDA i : U(i)[2])
MeanUxY(k) == KAvg(k, LAMBDA i : U(i)[1] * Rel(i, k)[2])
MeanUyX(k) == KAvg(k, LAMBDA i : U(i)[2] * Rel(i, k)[1])
Defined(k) == Neighbours(k) # {} /\ Rho(k) # RInt(0)

\* C1: strain_vorticity returns (0, 0) without raising whenever the point
\* has no neighbour or the coarse-grained density rho is 0, and with no
\* neighbour it returns before reading the unwrapped trajectory.
C1_ZeroWithoutNeighboursOrDensity ==
    pc \in {"svg_map", "done"} =>
        \A k \in Latest :
            (Neighbours(k) = {} \/ Rho(k) = RInt(0)) =>
                /\ samples[k].kind = "return"
                /\ samples[k].value = <<RInt(0), RInt(0)>>
                /\ (Neighbours(k) = {} => samples[k].reads = {})

\* a point without neighbours and a point whose neighbours all have weight 0
\* have both been sampled
C1_Witness ==
    /\ pc \in {"svg_map", "done"}
    /\ \E k \in Sampled : Neighbours(k) = {} /\ samples[k].kind = "return"
    /\ \E k \in Sampled :
        Neighbours(k) # {} /\ Rho(k) = RInt(0) /\ samples[k].value = <<RInt(0), RInt(0)>>

\* C2: with neighbours and rho # 0 the strain is
\* 1/2 [ (<y><u_x> + <x><u_y>)/(rho sigma^2) - (<u_x y> + <u_y x>)/(rho sigma^2) ].
C2_StrainFormula ==
    pc \in {"svg_map", "done"} =>
        \A k \in Latest :
            Defined(k) =>
                /\ samples[k].kind = "return"
                /\ samples[k].value[1] =
                    RHalf(RSub(RDiv(RAdd(RMul(MeanY(k), MeanUx(k)), RMul(MeanX(k), MeanUy(k))),
                                    RhoSigma2(k)),
                               RDiv(RAdd(MeanUxY(k), MeanUyX(k)), RhoSigma2(k))))

\* a point with two neighbours where both terms of the strain are non-zero
C2_Witness ==
    /\ pc \in {"svg_map", "done"}
    /\ \E k \in Sampled :
        /\ Defined(k)
        /\ Cardinality(Neighbours(k)) >= 2
        /\ RAdd(RMul(MeanY(k), MeanUx(k)), RMul(MeanX(k), MeanUy(k))) # RInt(0)
        /\ RAdd(MeanUxY(k), MeanUyX(k)) # RInt(0)
        /\ samples[k].value[1] # RInt(0)

\* C3: with neighbours and rho # 0 the vorticity is
\* (<x><u_y> - <y><u_x>)/(rho sigma^2) - (<u_y x> - <u_x y>)/(rho sigma^2).
C3_VorticityFormula ==
    pc \in {"svg_map", "done"} =>
        \A k \in Latest :
            Defined(k) =>
                /\ samples[k].kind = "return"
                /\ samples[k].value[2] =
                    RSub(RDiv(RSub(RMul(MeanX(k), MeanUy(k)), RMul(MeanY(k), MeanUx(k))),
                              RhoSigma2(k)),
                         RDiv(RSub(MeanUyX(k), MeanUxY(k)), RhoSigma2(k)))

\* a point with two neighbours where both terms of the vorticity are non-zero
C3_Witness ==
    /\ pc \in {"svg_map", "done"}
    /\ \E k \in Sampled :
        /\ Defined(k)
        /\ Cardinality(Neighbours(k)) >= 2
        /\ RSub(RMul(MeanX(k), MeanUy(k)), RMul(MeanY(k), MeanUx(k))) # RInt(0)
        /\ RSub(MeanUyX(k), MeanUxY(k)) # RInt(0)
        /\ samples[k].value[2] # RInt(0)

(***************************************************************************)
(* Displacement mode.                                                      *)
(***************************************************************************)
\* weight of the square-cell kernel and the averages it gives at point k
CellWeight(i, k) == IF 2 * Abs(Rel(i, k)[1]) <= dL /\ 2 * Abs(Rel(i, k)[2]) <= dL THEN 1 ELSE 0
CellSum(k) == SumOver(Neighbours(k), [i \in Neighbours(k) |-> CellWeight(i, k)])
CellAvg(k, q(_)) ==
    IF CellSum(k) = 0 THEN RInt(0)
    ELSE Rat(SumOver(Neighbours(k), [i \in Neighbours(k) |-> CellWeight(i, k) * q(i)]), CellSum(k))
LocalU(k) == <<CellAvg(k, LAMBDA i : U(i)[1]), CellAvg(k, LAMBDA i : U(i)[2])>>
\* mean displacement of all the particles of the frame
GlobalU ==
    <<Rat(SumOver(Particles, [i \in Particles |-> U(i)[1]]), NParticles),
      Rat(SumOver(Particles, [i \in Particles |-> U(i)[2]]), NParticles)>>
SquaredNorm(v) == RAdd(RMul(v[1], v[1]), RMul(v[2], v[2]))

\* C4: displacement returns four 2-component values at every query point,
\* never raises, and returns four times [0, 0] without neighbours.
C4_FourValuesNeverRaises ==
    pc \in {"d_map", "done"} =>
        \A k \in Sampled :
            /\ samples[k].kind = "return"
            /\ Len(samples[k].value) = 4
            /\ \A j \in 1..4 : Len(samples[k].value[j]) = 2
            /\ (Neighbours(k) = {} => samples[k].value = <<Zero2, Zero2, Zero2, Zero2>>)

\* C5: the density reported is 1 with at least one neighbour and 0 without,
\* whatever the neighbours' displacements.
C5_DensityIsOccupancy ==
    pc \in {"d_map", "done"} =>
        \A k \in Sampled :
            /\ samples[k].kind = "return"
            /\ samples[k].value[1][1] = RInt(IF Neighbours(k) # {} THEN 1 ELSE 0)

\* C6: the direction is the displacement divided by its norm when the norm
\* is not 0, and the zero vector exactly when the norm is 0.
C6_DirectionIsUnitDisplacement ==
    pc \in {"d_map", "done"} =>
        \A k \in Sampled :
            LET norm2 == SquaredNorm(LocalU(k))
            IN  /\ samples[k].kind = "return"
                /\ (norm2 # RInt(0) => samples[k].value[4] = UnitVector(LocalU(k)))
                /\ (samples[k].value[4] = Zero2 <=> norm2 = RInt(0))

\* C7: when every particle moves by the same vector d, displacement = d and
\* relative displacement = (0, 0) at every point with a neighbour.
C7_UniformTranslation ==
    (pc \in {"d_map", "done"} /\ \A i, j \in Particles : U(i) = U(j)) =>
        \A k \in Sampled :
            Neighbours(k) # {} =>
                /\ samples[k].kind = "return"
                /\ samples[k].value[2] = <<RInt(U(1)[1]), RInt(U(1)[2])>>
                /\ samples[k].value[3] = Zero2

\* C8: the relative displacement is the coarse-grained displacement of the
\* neighbours minus the mean displacement of all the particles of the frame.
C8_RelativeToEnsembleMean ==
    pc \in {"d_map", "done"} =>
        \A k \in Sampled :
            Neighbours(k) # {} =>
                /\ samples[k].kind = "return"
                /\ samples[k].value[3] =
                    <<RSub(LocalU(k)[1], GlobalU[1]), RSub(LocalU(k)[2], GlobalU[2])>>

(***************************************************************************)
(* Orientation of the field grids.                                         *)
(***************************************************************************)
\* index in grid_points of the point shown at row r, column c (from 0)
PointAt(r, c) == c * Ncases + (Ncases - 1 - r) + 1
Rows == 0..(Ncases - 1)

\* C10: in a returned field grid the value at row r and column c is the
\* sample at the point of x-index c and y-index Ncases-1-r, so that row 0
\* holds the highest y.
C10_GridOrientation ==
    (pc = "done" /\ ret.kind = "return") =>
        /\ \A r \in Rows, c \in Rows :
            /\ grid_points[PointAt(r, c)] = <<Whole(grid_axis[c + 1]), Whole(grid_axis[Ncases - r])>>
            /\ \A r2 \in Rows : r < r2 => grid_points[PointAt(r, c)][2] > grid_points[PointAt(r2, c)][2]
        /\ Len(ret.value) = 2 =>
            \A g \in 1..2, r \in Rows, c \in Rows :
                ret.value[g][r + 1][c + 1] = samples[PointAt(r, c)].value[g]
        /\ Len(ret.value) = 4 =>
            \A g \in 1..4, r \in Rows, c \in Rows :
                ret.value[g][r + 1][c + 1] =
                    displacement(grid_points[PointAt(r, c)], 0, 1,
                                 w_traj(IF ENDPOINT THEN 1 ELSE 0), u_traj, dL, box_size,
                                 NeighboursGrid(w_traj(IF ENDPOINT THEN 1 ELSE 0), box_size, dL \div 2)).value[g]

\* a returned strain grid whose top and bottom rows differ
C10_Witness ==
    /\ pc = "done"
    /\ ret.kind = "return"
    /\ Len(ret.value) = 2
    /\ ret.value[1][1] # ret.value[1][Ncases]
    /\ samples[PointAt(0, 0)].value[1] # samples[PointAt(Ncases - 1, 0)].value[1]

(***************************************************************************)
(* Time origins.                                                           *)
(***************************************************************************)
Increasing(seq) == \A a, b \in 1..Len(seq) : a < b => seq[a] < seq[b]
LastOrigin == main.Nentries - main.dt - 1
TimesProperty ==
    /\ Increasing(main.times)
    /\ Len(main.times) <= main.int_max
    /\ \A j \in 1..Len(main.times) : main.init_frame <= main.times[j] /\ main.times[j] <= LastOrigin

\* C9 as stated: for int_max >= 1, dt >= 1 and Nentries >= dt + 1 the time
\* origins are strictly increasing, at most int_max, and all between
\* init_frame and Nentries - dt - 1.
C9_Original ==
    (main.pc = "times" /\ main.int_max >= 1 /\ main.dt >= 1 /\ main.Nentries >= main.dt + 1)
        => TimesProperty

\* C9 amended: the same, provided also that the initial frame admits the
\* lag, init_frame <= Nentries - dt - 1.
C9_TimeOrigins ==
    (main.pc = "times" /\ main.int_max >= 1 /\ main.dt >= 1 /\ main.Nentries >= main.dt + 1
        /\ main.init_frame <= LastOrigin)
        => TimesProperty

\* origins truncating to the same frame were merged, and several remain
C9_Witness ==
    /\ main.pc = "times"
    /\ main.dt >= 1
    /\ main.init_frame <= LastOrigin
    /\ Len(main.times) >= 2
    /\ Len(main.times) < main.int_max

(***************************************************************************)
(* Scripts css.py and cuu.py: the query grid.                              *)
(***************************************************************************)
\* largest N_CASES and largest parameters['box_size'] of a run of the script
MaxCases == 3
MaxBox == 3

\* no field analysis is running
IdleAnalysis ==
    /\ u_traj = <<>>
    /\ ENDPOINT = FALSE
    /\ sigma = 1
    /\ pc = "none"
    /\ positions = <<>>
    /\ neighbours_grid = NoGrid
    /\ samples = <<>>
    /\ ret = NotCalled
    /\ main = NoMain

RNeg(q) == <<-q[1], q[2]>>

\* np.linspace(start, stop, num, endpoint=True) of rationals: start alone
\* when num = 1, else start + i*(stop - start)/(num - 1)
np_linspace(start, stop, num) ==
    [i \in 1..num |->
        IF num = 1 THEN start
        ELSE RAdd(start, RMul(RInt(i - 1), RDiv(RSub(stop, start), RInt(num - 1))))]

\* parameters['box_size']*(1 - 1./Ncases)/2
grid_end_Edge(box, n) == RHalf(RInt(box))
grid_end(box, n) == RMul(RInt(box), RHalf(RSub(RInt(1), Rat(1, n))))

\* np.array([(x, y) for x in np.linspace(...) for y in np.linspace(...)])
css_grid_points(box, n) ==
    LET axis == np_linspace(RNeg(grid_end(box, n)), grid_end(box, n), n)
    IN  [k \in 1..(n * n) |-> <<axis[((k - 1) \div n) + 1], axis[((k - 1) % n) + 1]>>]

\* names bound in module cuu when its script starts
cuu_script_names == cuu_globals \cup {"__name__"}

\* the script up to the mode selection: css.py reads its environment and its
\* parameters; cuu.py stops at data_dir = get_env(..., default=getcwd()),
\* getcwd not being imported
Query_Start ==
    /\ query.pc = "start"
    /\ query' = IF query.script = "cuu" /\ "getcwd" \notin cuu_script_names
                THEN [query EXCEPT !.pc = "raised", !.exc = "NameError"]
                ELSE [query EXCEPT !.pc = "compute"]
    /\ UNCHANGED <<analysis, radial, modes, envcall, std, fit, circle, run>>

\* grid_points = np.array([...]), before the map over the time origins
Query_Build ==
    /\ query.pc = "compute"
    /\ query' = [query EXCEPT !.pc = "map",
                              !.grid_points = css_grid_points(query.box_size, query.Ncases)]
    /\ UNCHANGED <<analysis, radial, modes, envcall, std, fit, circle, run>>

\* map(lambda time: strain_vorticity_grid(box_size, Ncases, grid_points,
\* time, ...), times): the call for the next time origin and the points it
\* is given
Query_Map ==
    /\ query.pc = "map"
    /\ LET j == Len(query.calls) + 1
       IN  query' = [query EXCEPT
                !.calls = Append(@, [time |-> query.times[j], grid_points |-> query.grid_points]),
                !.pc = IF j = Len(query.times) THEN "done" ELSE "map"]
    /\ UNCHANGED <<analysis, radial, modes, envcall, std, fit, circle, run>>

InitQuery ==
    /\ IdleAnalysis
    /\ circle = Idle
    /\ run = Idle
    /\ query \in {[pc |-> "start", script |-> s, exc |-> "", box_size |-> b, Ncases |-> n,
                   times |-> [j \in 1..m |-> j - 1], grid_points |-> <<>>, calls |-> <<>>] :
                    s \in {"css", "cuu"}, b \in 1..MaxBox, n \in 1..MaxCases,
                    m \in 1..MaxIntMax}
    /\ radial = Idle
    /\ modes = Idle
    /\ envcall = Idle
    /\ std = Idle
    /\ fit = Idle

NextQuery == Query_Start \/ Query_Build \/ Query_Map

\* the script from its start to the calls made for each time origin
SpecQuery == InitQuery /\ [][NextQuery]_vars

\* centre of cell i (from 0) of the n cells of width box/n tiling
\* [-box/2, box/2]: -box/2 + (i + 1/2)*box/n
CellCentre(box, n, i) ==
    RAdd(RNeg(RHalf(RInt(box))), RMul(Rat(2 * i + 1, 2), Rat(box, n)))

Lattice(box, n) ==
    [k \in 1..(n * n) |-> <<CellCentre(box, n, (k - 1) \div n), CellCentre(box, n, (k - 1) % n)>>]

\* C11: the query grid is made of Ncases*Ncases distinct points, the centres
\* of the cells of a regular lattice of spacing box_size/Ncases in both
\* directions, for every Ncases >= 1; it is built once and every time origin
\* is given the same points.
C11_QueryGrid ==
    query.pc \in {"map", "done"} =>
        LET g == query.grid_points
            n == query.Ncases
            b == query.box_size
        IN  /\ Len(g) = n * n
            /\ \A k, l \in 1..Len(g) : k # l => g[k] # g[l]
            /\ g = Lattice(b, n)
            /\ \A k \in 1..Len(g) :
                /\ (k + n <= Len(g) => RSub(g[k + n][1], g[k][1]) = Rat(b, n))
                /\ (k % n # 0 => RSub(g[k + 1][2], g[k][2]) = Rat(b, n))
            /\ \A j \in 1..Len(query.calls) : query.calls[j].grid_points = Lattice(b, n)

\* a run with a single cell whose one point served several time origins
C11_Witness ==
    /\ query.pc = "done"
    /\ query.Ncases = 1
    /\ Len(query.calls) >= 2
    /\ query.calls[2].grid_points = <<<<RInt(0), RInt(0)>>>>

(***************************************************************************)
(* Script cuu.py: radial profiles of the correlation fields.               *)
(***************************************************************************)
\* side of the correlation fields of the run, and the values they hold
FieldSide == 2
FieldValues == {0, 1, 2}
DensityValues == {0, 1}
Fields(V) == [(1..FieldSide) \X (1..FieldSide) -> V]

\* squared periodic radius, in grid separations, of the offset of cell ij
Radius2(ij) ==
    Norm2(<<MinImage(ij[1] - 1, FieldSide), MinImage(ij[2] - 1, FieldSide)>>)

RECURSIVE Ordered(_)
\* the elements of a set of numbers in increasing order
Ordered(S) ==
    IF S = {} THEN <<>>
    ELSE LET m == CHOOSE x \in S : \A y \in S : x <= y IN <<m>> \o Ordered(S \ {m})

\* g2Dto1D(g2D, L): for each radius of the grid, in increasing order, the
\* mean of the values of the field at that radius; the field holds rationals
g2Dto1D(g2D) ==
    LET radii == Ordered({Radius2(ij) : ij \in DOMAIN g2D})
        ring(r2) == {ij \in DOMAIN g2D : Radius2(ij) = r2}
    IN  [k \in 1..Len(radii) |->
            <<radii[k], RDiv(RSumOver(ring(radii[k]), g2D), RInt(Cardinality(ring(radii[k]))))>>]

\* np.divide(a, b, out=np.zeros(a.shape), where=b!=0) of integer fields
np_divide(a, b) == [ij \in DOMAIN a |-> IF b[ij] # 0 THEN Rat(a[ij], b[ij]) ELSE RInt(0)]

AsRationals(a) == [ij \in DOMAIN a |-> RInt(a[ij])]

\* a name the script can read: an import or a function of the module, or a
\* variable the script has assigned
Bound(name) == name \in cuu_script_names \cup DOMAIN radial.names

\* Cnn1D = g2Dto1D(Cnn2D, box_size)
Radial_Cnn1D ==
    /\ radial.pc = "Cnn1D"
    /\ radial' = [radial EXCEPT
            !.pc = "Cuu1D",
            !.names = [n \in DOMAIN @ \cup {"Cnn1D"} |->
                        IF n = "Cnn1D" THEN g2Dto1D(AsRationals(radial.names["Cnn2D"]))
                        ELSE radial.names[n]]]
    /\ UNCHANGED <<analysis, query, modes, envcall, std, fit, circle, run>>

\* (Cuu1D, Cuu1Dcor), ... = tuple(map(lambda C2D: tuple(map(lambda C:
\*     g2Dto1D(C, box_size), [C2D, np.divide(C2D, Cnn, out=np.zeros(C2D.shape),
\*     where=Cnn!=0)])), [Cuu2D, ...]))
Radial_Cuu1D ==
    /\ radial.pc = "Cuu1D"
    /\ radial' =
        IF \E n \in {"tuple", "map", "g2Dto1D", "box_size", "np", "Cnn"} :
                ~Bound(n) /\ n \notin py_builtins
        THEN [radial EXCEPT !.pc = "raised", !.exc = "NameError"]
        ELSE [radial EXCEPT
                !.pc = "saving",
                !.names = [n \in DOMAIN @ \cup {"Cuu1D", "Cuu1Dcor"} |->
                    IF n = "Cuu1D" THEN g2Dto1D(AsRationals(radial.names["Cuu2D"]))
                    ELSE IF n = "Cuu1Dcor"
                         THEN g2Dto1D(np_divide(radial.names["Cuu2D"], radial.names["Cnn"]))
                    ELSE radial.names[n]]]
    /\ UNCHANGED <<analysis, query, modes, envcall, std, fit, circle, run>>

\* Cnn2D, Cuu2D: the correlation fields of lines 361-364
InitRadial ==
    /\ IdleAnalysis
    /\ circle = Idle
    /\ run = Idle
    /\ radial \in {[pc |-> "Cnn1D", exc |-> "",
                    names |-> [n \in {"box_size", "Cnn2D", "Cuu2D"} |->
                                IF n = "Cnn2D" THEN d ELSE IF n = "Cuu2D" THEN c ELSE 2 * FieldSide]] :
                    d \in Fields(DensityValues), c \in Fields(FieldValues)}
    /\ query = Idle
    /\ modes = Idle
    /\ envcall = Idle
    /\ std = Idle
    /\ fit = Idle

NextRadial == Radial_Cnn1D \/ Radial_Cuu1D

\* the script from the correlation fields to their radial profiles
SpecRadial == InitRadial /\ [][NextRadial]_vars

\* C12: the corrected radial profile of a correlation field is produced
\* without failure and is the radial profile of the field divided, radius by
\* radius, by the radial profile of the density correlation, and 0 at every
\* radius where that reference is 0.
C12_CorrectedProfile ==
    radial.pc \in {"raised", "saving"} =>
        /\ radial.pc = "saving"
        /\ \A k \in 1..Len(radial.names["Cnn1D"]) :
            radial.names["Cuu1Dcor"][k] =
                <<radial.names["Cnn1D"][k][1],
                  IF radial.names["Cnn1D"][k][2] = RInt(0) THEN RInt(0)
                  ELSE RDiv(radial.names["Cuu1D"][k][2], radial.names["Cnn1D"][k][2])>>

(***************************************************************************)
(* Displacement mode: the square cell.                                     *)
(***************************************************************************)
\* particles of the frame lying in the square cell of half-width dL/2
\* centred at point k, corners included
InCell(k) == {i \in Particles : CellWeight(i, k) = 1}
PlainMean(k) ==
    <<Rat(SumOver(InCell(k), [i \in InCell(k) |-> U(i)[1]]), Cardinality(InCell(k))),
      Rat(SumOver(InCell(k), [i \in InCell(k) |-> U(i)[2]]), Cardinality(InCell(k)))>>

\* C13: the coarse-grained displacement at a point is the plain mean of the
\* displacements of all the particles lying in the square cell of half-width
\* dL/2 centred at the point, those in its corners included.
C13_SquareCellMean ==
    pc \in {"d_map", "done"} =>
        \A k \in Sampled :
            InCell(k) # {} =>
                /\ samples[k].kind = "return"
                /\ samples[k].value[2] = PlainMean(k)

(***************************************************************************)
(* Lag time.                                                               *)
(***************************************************************************)
\* C14: with TIME < 0 the lag used is the number of frames Nentries, minus
\* the resolved initial frame, plus TIME; with TIME > 0 it is TIME itself.
C14_LagTime ==
    main.pc \in {"compute", "times"} =>
        /\ (main.TIME < 0 => main.dt = main.Nentries - main.init_frame + main.TIME)
        /\ (main.TIME > 0 => main.dt = main.TIME)

\* a negative TIME counted back from the frames left after an initial frame
\* that was itself resolved from a negative INITIAL_FRAME
C14_Witness ==
    /\ main.pc = "compute"
    /\ main.TIME < 0
    /\ main.INITIAL_FRAME < 0
    /\ main.init_frame > 0
    /\ main.dt >= 1
    /\ main.dt = main.Nentries - main.init_frame + main.TIME

(***************************************************************************)
(* init.py: get_env.  Strings are sequences of characters; a Python value  *)
(* is its type with its number (a rational) or its text.                   *)
(***************************************************************************)
PyInt(n) == [type |-> "int", num |-> RInt(n), text |-> <<>>]
PyFloat(q) == [type |-> "float", num |-> q, text |-> <<>>]
PyBool(b) == [type |-> "bool", num |-> RInt(IF b THEN 1 ELSE 0), text |-> <<>>]
PyStr(s) == [type |-> "str", num |-> RInt(0), text |-> s]
PyNone == [type |-> "NoneType", num |-> RInt(0), text |-> <<>>]

\* what evaluating an expression gives: a value, or the exception raised
Value(v) == [kind |-> "return", exc |-> "", value |-> v]
Exception(e) == [kind |-> "raise", exc |-> e, value |-> PyNone]

Digits == {"0", "1", "2", "3", "4", "5", "6", "7", "8", "9"}
Letters == {"T", "r", "u", "e", "F", "a", "l", "s", "N", "o", "n", "b", "c"}
DigitValue(c) ==
    CASE c = "0" -> 0 [] c = "1" -> 1 [] c = "2" -> 2 [] c = "3" -> 3 [] c = "4" -> 4
      [] c = "5" -> 5 [] c = "6" -> 6 [] c = "7" -> 7 [] c = "8" -> 8 [] c = "9" -> 9

RECURSIVE Decimal(_)
\* the number written by a sequence of digits (0 for no digit)
Decimal(s) ==
    IF s = <<>> THEN 0 ELSE 10 * Decimal(SubSeq(s, 1, Len(s) - 1)) + DigitValue(s[Len(s)])

RECURSIVE Pow10(_)
Pow10(k) == IF k = 0 THEN 1 ELSE 10 * Pow10(k - 1)

AllDigits(s) == s # <<>> /\ \A i \in 1..Len(s) : s[i] \in Digits
AllLetters(s) == s # <<>> /\ \A i \in 1..Len(s) : s[i] \in Letters
Signed(s) == s # <<>> /\ s[1] \in {"-", "+"}
Unsigned(s) == IF Signed(s) THEN Tail(s) ELSE s
SignOf(s) == IF Signed(s) /\ s[1] = "-" THEN -1 ELSE 1

\* digits, a point, digits, with a digit on one side of the point at least
Dots(s) == {i \in 1..Len(s) : s[i] = "."}
PointNumber(s) ==
    /\ Cardinality(Dots(s)) = 1
    /\ LET d == CHOOSE i \in Dots(s) : TRUE
           whole == SubSeq(s, 1, d - 1)
           frac == SubSeq(s, d + 1, Len(s))
       IN  /\ whole \o frac # <<>>
           /\ \A i \in 1..Len(whole \o frac) : (whole \o frac)[i] \in Digits
PointValue(s) ==
    LET d == CHOOSE i \in Dots(s) : TRUE
        whole == SubSeq(s, 1, d - 1)
        frac == SubSeq(s, d + 1, Len(s))
    IN  Rat(Decimal(whole \o frac), Pow10(Len(frac)))

\* int(s) of a string: an optional sign and digits, else ValueError
int_str(s) ==
    IF AllDigits(Unsigned(s)) THEN Value(PyInt(SignOf(s) * Decimal(Unsigned(s))))
    ELSE Exception("ValueError")

\* float(s) of a string: an optional sign and digits with an optional point
float_str(s) ==
    IF AllDigits(Unsigned(s)) THEN Value(PyFloat(RInt(SignOf(s) * Decimal(Unsigned(s)))))
    ELSE IF PointNumber(Unsigned(s))
         THEN Value(PyFloat(RMul(RInt(SignOf(s)), PointValue(Unsigned(s)))))
    ELSE Exception("ValueError")

\* eval(s) of the strings considered: a number, True, False, None or a
\* quoted string gives its value; an integer written with leading zeros, the
\* empty string and anything else that is not an expression raise
\* SyntaxError; any other name is unbound
LeadingZero(s) == Len(s) > 1 /\ s[1] = "0" /\ \E i \in 1..Len(s) : s[i] # "0"
Quoted(s) ==
    /\ Len(s) >= 2
    /\ s[1] = "'"
    /\ s[Len(s)] = "'"
    /\ \A i \in 2..(Len(s) - 1) : s[i] # "'"
eval(s) ==
    IF s = <<"T", "r", "u", "e">> THEN Value(PyBool(TRUE))
    ELSE IF s = <<"F", "a", "l", "s", "e">> THEN Value(PyBool(FALSE))
    ELSE IF s = <<"N", "o", "n", "e">> THEN Value(PyNone)
    ELSE IF AllLetters(s) THEN Exception("NameError")
    ELSE IF AllDigits(Unsigned(s))
         THEN IF LeadingZero(Unsigned(s)) THEN Exception("SyntaxError")
              ELSE Value(PyInt(SignOf(s) * Decimal(Unsigned(s))))
    ELSE IF PointNumber(Unsigned(s))
         THEN Value(PyFloat(RMul(RInt(SignOf(s)), PointValue(Unsigned(s)))))
    ELSE IF Quoted(s) THEN Value(PyStr(SubSeq(s, 2, Len(s) - 1)))
    ELSE Exception("SyntaxError")

DigitChar(d) == CHOOSE c \in Digits : DigitValue(c) = d

RECURSIVE DigitsOf(_)
DigitsOf(n) ==
    IF n < 10 THEN <<DigitChar(n)>> ELSE DigitsOf(n \div 10) \o <<DigitChar(n % 10)>>

RECURSIVE FractionDigits(_, _, _)
\* the first k decimals of r/d, for 0 <= r < d
FractionDigits(r, d, k) ==
    IF k = 0 THEN <<>>
    ELSE <<DigitChar((10 * r) \div d)>> \o FractionDigits((10 * r) % d, d, k - 1)

\* str(v) of a value that is not a string
repr(v) ==
    LET n == Abs(v.num[1])
        d == v.num[2]
        minus == IF v.num[1] < 0 THEN <<"-">> ELSE <<>>
        k == CHOOSE j \in 0..6 : Pow10(j) % d = 0 /\ \A i \in 0..(j - 1) : Pow10(i) % d # 0
    IN  CASE v.type = "int" -> minus \o DigitsOf(n)
          [] v.type = "float" ->
                minus \o DigitsOf(n \div d) \o <<".">> \o
                    (IF k = 0 THEN <<"0">> ELSE FractionDigits(n % d, d, k))
          [] v.type = "bool" ->
                IF v.num = RInt(1) THEN <<"T", "r", "u", "e">> ELSE <<"F", "a", "l", "s", "e">>
          [] v.type = "NoneType" -> <<"N", "o", "n", "e">>
          [] v.type = "str" -> <<"'">> \o v.text \o <<"'">>

\* vartype(v) for the data types the scripts ask for
vartype_int(v) ==
    CASE v.type = "str" -> int_str(v.text)
      [] v.type = "float" -> Value(PyInt(int(v.num)))
      [] v.type \in {"int", "bool"} -> Value(PyInt(v.num[1]))
      [] v.type = "NoneType" -> Exception("TypeError")
vartype_float(v) ==
    CASE v.type = "str" -> float_str(v.text)
      [] v.type \in {"int", "bool", "float"} -> Value(PyFloat(v.num))
      [] v.type = "NoneType" -> Exception("TypeError")
\* bool(v): a string is true unless it is empty, a number unless it is 0
vartype_bool(v) ==
    CASE v.type = "str" -> Value(PyBool(v.text # <<>>))
      [] v.type \in {"int", "bool", "float"} -> Value(PyBool(v.num # RInt(0)))
      [] v.type = "NoneType" -> Value(PyBool(FALSE))
vartype_str(v) == IF v.type = "str" THEN Value(v) ELSE Value(PyStr(repr(v)))

Convert(vartype, v) ==
    CASE vartype = "int" -> vartype_int(v)
      [] vartype = "float" -> vartype_float(v)
      [] vartype = "bool" -> vartype_bool(v)
      [] vartype = "str" -> vartype_str(v)

\* try: return vartype(envvar[var_name])
\* except ValueError:
\*     try: return vartype(eval(envvar[var_name]))
\*     except ValueError: raise
get_env_try(envvar, var_name, vartype) ==
    LET direct == IF var_name \notin DOMAIN envvar THEN Exception("KeyError")
                  ELSE Convert(vartype, PyStr(envvar[var_name]))
        evaluated == IF eval(envvar[var_name]).kind = "raise" THEN eval(envvar[var_name])
                     ELSE Convert(vartype, eval(envvar[var_name]).value)
    IN  IF direct.kind = "raise" /\ direct.exc = "ValueError" THEN evaluated ELSE direct

\* get_env(var_name, default, vartype): the try above, and
\* except: return default
get_env_NoExcept(envvar, var_name, default, vartype) == get_env_try(envvar, var_name, vartype)
get_env(envvar, var_name, default, vartype) ==
    IF get_env_try(envvar, var_name, vartype).kind = "raise" THEN Value(default)
    ELSE get_env_try(envvar, var_name, vartype)

\* strings an environment variable may hold:
\* '', 0, 1, 2, -3, 2.0, 2.5, .5, 007, 2..0, True, False, None, abc, 'a', '7'
EnvStrings ==
    {<<>>, <<"0">>, <<"1">>, <<"2">>, <<"-", "3">>, <<"2", ".", "0">>, <<"2", ".", "5">>,
     <<".", "5">>, <<"0", "0", "7">>, <<"2", ".", ".", "0">>, <<"T", "r", "u", "e">>,
     <<"F", "a", "l", "s", "e">>, <<"N", "o", "n", "e">>, <<"a", "b", "c">>,
     <<"'", "a", "'">>, <<"'", "7", "'">>}
VarTypes == {"str", "int", "float", "bool"}
Defaults == {PyNone, PyInt(-1), PyBool(FALSE)}

\* os.environ holding the variables of the set names, or some of them
Environments(names, strings) == UNION {[S -> strings] : S \in SUBSET names}

\* one call get_env(var_name, default=default, vartype=vartype)
GetEnv_Call ==
    /\ envcall.pc = "call"
    /\ envcall' = [envcall EXCEPT
            !.pc = "done",
            !.ret = get_env(envcall.envvar, envcall.var_name, envcall.default, envcall.vartype)]
    /\ UNCHANGED <<analysis, query, radial, modes, std, fit, circle, run>>

InitEnv ==
    /\ IdleAnalysis
    /\ circle = Idle
    /\ run = Idle
    /\ envcall \in {[pc |-> "call", envvar |-> e, var_name |-> "TIME", default |-> d,
                     vartype |-> t, ret |-> Exception("")] :
                        e \in Environments({"TIME"}, EnvStrings), d \in Defaults, t \in VarTypes}
    /\ query = Idle
    /\ radial = Idle
    /\ modes = Idle
    /\ std = Idle
    /\ fit = Idle

NextEnv == GetEnv_Call

\* calls of get_env
SpecEnv == InitEnv /\ [][NextEnv]_vars

IsSet == envcall.var_name \in DOMAIN envcall.envvar
\* the string converts to the type neither as it is nor once evaluated
NotConvertible(s, vartype) ==
    /\ Convert(vartype, PyStr(s)).kind = "raise"
    /\ \/ eval(s).kind = "raise"
       \/ Convert(vartype, eval(s).value).kind = "raise"

\* C16: get_env never raises; it returns the default when the variable does
\* not exist, and when its string converts to the requested type neither
\* directly nor after evaluation.
C16_NeverRaises ==
    envcall.pc = "done" =>
        /\ envcall.ret.kind = "return"
        /\ (~IsSet => envcall.ret.value = envcall.default)
        /\ (IsSet /\ NotConvertible(envcall.envvar[envcall.var_name], envcall.vartype)
                => envcall.ret.value = envcall.default)

\* the quoted string 'a' asked as an int: it is no number, it evaluates to
\* the string a, which is no number either
C16_Witness ==
    /\ envcall.pc = "done"
    /\ IsSet
    /\ envcall.envvar[envcall.var_name] = <<"'", "a", "'">>
    /\ envcall.vartype = "int"
    /\ eval(envcall.envvar[envcall.var_name]) = Value(PyStr(<<"a">>))
    /\ envcall.default = PyInt(-1)
    /\ envcall.ret = Value(PyInt(-1))

\* C17: when the variable is set, get_env returns the value its string
\* denotes, in the requested type: as a bool, False and 0 give False, True
\* and 1 give True; as an int, 2.0 gives 2.
C17_DenotedValue ==
    (envcall.pc = "done" /\ IsSet) =>
        LET s == envcall.envvar[envcall.var_name]
            t == envcall.vartype
            v == envcall.ret.value
        IN  /\ envcall.ret.kind = "return"
            /\ (t = "bool" /\ s \in {<<"F", "a", "l", "s", "e">>, <<"0">>} => v = PyBool(FALSE))
            /\ (t = "bool" /\ s \in {<<"T", "r", "u", "e">>, <<"1">>} => v = PyBool(TRUE))
            /\ (t = "int" /\ s = <<"2", ".", "0">> => v = PyInt(2))
            /\ (t = "str" => v = PyStr(s))
            /\ (t # "str" /\ eval(s).kind = "return" /\ eval(s).value.type \in {"int", "float", "bool"}
                    => v = Convert(t, eval(s).value).value)

(***************************************************************************)
(* Script css.py: mode selection.                                          *)
(***************************************************************************)
ModeNames == {"COMPUTE", "PLOT", "SHOW", "SAVE"}
ModeStrings == {<<"T", "r", "u", "e">>, <<"F", "a", "l", "s", "e">>}

\* if get_env(name, default=False, vartype=bool)
Mode(name) == get_env(modes.envvar, name, PyBool(FALSE), "bool").value = PyBool(TRUE)

\* plot(Grid, Corr, var, naming_standard): makes the figure of the map and
\* of the correlation, and saves it in SAVE mode
plot(m, naming_standard) ==
    [m EXCEPT !.figures = Append(@, naming_standard),
              !.saved = IF Mode("SAVE") THEN @ \cup {naming_standard} ELSE @]

\* if get_env('COMPUTE', ...): the grids and their correlations are computed
\* and dumped in the data directory, then plotted and shown in SHOW mode
Css_ComputeMode ==
    /\ modes.pc = "compute_mode"
    /\ LET computed == [modes EXCEPT !.dumped = TRUE]
           plotted == [plot(plot(computed, "Css"), "Ccc") EXCEPT !.shown = TRUE]
       IN  modes' = [(IF ~Mode("COMPUTE") THEN modes
                      ELSE IF Mode("SHOW") THEN plotted ELSE computed)
                        EXCEPT !.pc = "plot_mode"]
    /\ UNCHANGED <<analysis, query, radial, envcall, std, fit, circle, run>>

\* if get_env('PLOT', ...): the dumped grids and correlations are loaded
\* and plotted, and shown in SHOW mode
Css_PlotMode ==
    /\ modes.pc = "plot_mode"
    /\ LET plotted == plot(plot(modes, "Css"), "Ccc")
       IN  modes' =
            IF ~Mode("PLOT") THEN [modes EXCEPT !.pc = "end"]
            ELSE IF ~modes.dumped THEN [modes EXCEPT !.pc = "raised", !.exc = "FileNotFoundError"]
            ELSE [plotted EXCEPT !.pc = "end", !.shown = @ \/ Mode("SHOW")]
    /\ UNCHANGED <<analysis, query, radial, envcall, std, fit, circle, run>>

\* the environment of the run, and whether an earlier run left its data
InitModes ==
    /\ IdleAnalysis
    /\ circle = Idle
    /\ run = Idle
    /\ modes \in {[pc |-> "compute_mode", envvar |-> e, dumped |-> d, figures |-> <<>>,
                   saved |-> {}, shown |-> FALSE, exc |-> ""] :
                    e \in Environments(ModeNames, ModeStrings), d \in BOOLEAN}
    /\ query = Idle
    /\ radial = Idle
    /\ envcall = Idle
    /\ std = Idle
    /\ fit = Idle

NextModes == Css_ComputeMode \/ Css_PlotMode

\* the script from its mode selection to its end
SpecModes == InitModes /\ [][NextModes]_vars

\* C15: when SAVE is set and the script has run in COMPUTE mode or in PLOT
\* mode, the figures of the shear strain and of the displacement vorticity
\* have been saved, whether or not SHOW is set.
C15_FiguresSaved ==
    (modes.pc = "end" /\ Mode("SAVE") /\ (Mode("COMPUTE") \/ Mode("PLOT")))
        => modes.saved = {"Css", "Ccc"}

(***************************************************************************)
(* init.py: StdOut.                                                        *)
(***************************************************************************)
\* largest number of calls made on the object
MaxCalls == 4

\* streams sys.stdout may be when the object is made, and the files the
\* caller has opened to redirect the output to
Streams == {"console", "pipe"}
Files == {"file1", "file2"}
\* an attribute the object does not have yet: reading it is AttributeError
NoAttribute == "AttributeError"

\* file.close(): closing a closed file does nothing
close(open, file) == open \ {file}

\* self.stdout = sys.stdout
StdOut_init(o) == [o EXCEPT !.stdout = o.sys_stdout]

\* try: self.output_file.close() / except AttributeError: pass
\* self.output_file = output_file; sys.stdout = self.output_file
\* atexit.register(self.revert)
StdOut_set(o, output_file) ==
    [o EXCEPT !.open = IF o.output_file = NoAttribute THEN @ ELSE close(@, o.output_file),
              !.output_file = output_file,
              !.sys_stdout = output_file,
              !.atexit = @ + 1]

\* try: self.output_file.close(); sys.stdout = self.stdout
\* except AttributeError: pass
StdOut_revert_KeepStream(o) == [o EXCEPT !.open = close(@, o.output_file)]
StdOut_revert(o) ==
    IF o.output_file = NoAttribute THEN o
    ELSE [o EXCEPT !.open = close(@, o.output_file), !.sys_stdout = o.stdout]

RECURSIVE Repeat(_, _)
\* the callbacks registered with atexit, run when the script exits
Repeat(o, n) == IF n = 0 THEN o ELSE Repeat(StdOut_revert(o), n - 1)

Called(op, arg) == [op |-> op, arg |-> arg]

\* StdOut()
StdOut_New ==
    /\ std.pc = "new"
    /\ std' = [StdOut_init(std) EXCEPT !.pc = "live",
                                       !.calls = Append(@, Called("__init__", std.sys_stdout))]
    /\ UNCHANGED <<analysis, query, radial, modes, envcall, fit, circle, run>>

\* set(output_file), with any of the caller's files
StdOut_Set(output_file) ==
    /\ std.pc = "live"
    /\ Len(std.calls) < MaxCalls + 1
    /\ std' = [StdOut_set(std, output_file) EXCEPT !.calls = Append(@, Called("set", output_file))]
    /\ UNCHANGED <<analysis, query, radial, modes, envcall, fit, circle, run>>

\* revert()
StdOut_Revert ==
    /\ std.pc = "live"
    /\ Len(std.calls) < MaxCalls + 1
    /\ std' = [StdOut_revert(std) EXCEPT !.calls = Append(@, Called("revert", ""))]
    /\ UNCHANGED <<analysis, query, radial, modes, envcall, fit, circle, run>>

\* the script exits: atexit runs revert once for each set
StdOut_Exit ==
    /\ std.pc = "live"
    /\ std' = [Repeat(std, std.atexit) EXCEPT !.pc = "exited", !.atexit = 0]
    /\ UNCHANGED <<analysis, query, radial, modes, envcall, fit, circle, run>>

InitStd ==
    /\ IdleAnalysis
    /\ circle = Idle
    /\ run = Idle
    /\ std \in {[pc |-> "new", sys_stdout |-> s, stdout |-> NoAttribute,
                 output_file |-> NoAttribute, open |-> Files, atexit |-> 0, calls |-> <<>>] :
                    s \in Streams}
    /\ query = Idle
    /\ radial = Idle
    /\ modes = Idle
    /\ envcall = Idle
    /\ fit = Idle

NextStd ==
    \/ StdOut_New
    \/ \E output_file \in Files : StdOut_Set(output_file)
    \/ StdOut_Revert
    \/ StdOut_Exit

\* a StdOut object from its construction to the end of the script
SpecStd == InitStd /\ [][NextStd]_vars

\* the files given to set so far, and the last call made
SetCalls == {j \in 1..Len(std.calls) : std.calls[j].op = "set"}
SetFiles == {std.calls[j].arg : j \in SetCalls}
LastSet == std.calls[CHOOSE j \in SetCalls : \A i \in SetCalls : i <= j].arg
LastCall == std.calls[Len(std.calls)]

\* C18: after set(f1), ..., set(fn) and revert(), sys.stdout is the stream
\* of the time the object was made and fn is closed; after each set(f),
\* sys.stdout is f and every file set before it is closed, so that at most
\* one of the files set is open; revert() on an object never set changes
\* neither sys.stdout nor any file.
C18_SetRevert ==
    std.pc = "live" =>
        /\ (LastCall.op = "revert" /\ SetCalls # {} =>
                /\ std.sys_stdout = std.calls[1].arg
                /\ LastSet \notin std.open)
        /\ (LastCall.op = "set" =>
                /\ std.sys_stdout = LastCall.arg
                /\ \A f \in SetFiles : f # LastCall.arg => f \notin std.open)
        /\ Cardinality(SetFiles \cap std.open) <= 1
        /\ (LastCall.op = "revert" /\ SetCalls = {} =>
                /\ std.sys_stdout = std.calls[1].arg
                /\ std.open = Files)

\* two files set in turn, then revert: both are closed and the stream of
\* the construction is back
C18_Witness ==
    /\ std.pc = "live"
    /\ Len(std.calls) = 4
    /\ std.calls[2] = Called("set", "file1")
    /\ std.calls[3] = Called("set", "file2")
    /\ std.calls[4].op = "revert"
    /\ std.sys_stdout = "pipe"
    /\ std.open = {}

(***************************************************************************)
(* plot/mpl_tools.py: FittingLine.  The value y0*r*exp(t) of a fitting     *)
(* function is carried as its coefficient y0*r and its exponent t, both    *)
(* rationals; slopes are whole numbers.                                    *)
(***************************************************************************)
\* limits of the axes, slopes of the slider, and data coordinates of the
\* mouse (x > 0 on a logarithmic x-axis, y > 0 on the logarithmic y-axis)
XLim == <<1, 4>>
YLim == <<1, 9>>
Slopes == {-1, 0, 2}
XData == {0, 1, 3}
YData == {1, 2}

Finite(c, t) == [coef |-> c, exponent |-> t]
\* inf or nan, what numpy gives for a division by zero
NotFinite == [coef |-> <<0, 0>>, exponent |-> RInt(0)]

RECURSIVE RPow(_, _)
\* q ** k for a whole k (q # 0 when k < 0)
RPow(q, k) ==
    IF k = 0 THEN RInt(1)
    ELSE IF k < 0 THEN RPow(RDiv(RInt(1), q), -k)
    ELSE RMul(q, RPow(q, k - 1))

\* y0 * ((x/x0) ** slope)
_powerlaw(x0, y0, slope, x) ==
    IF x0 = 0 \/ (x = 0 /\ slope < 0) THEN NotFinite
    ELSE Finite(RMul(RInt(y0), RPow(Rat(x, x0), slope)), RInt(0))

\* y0 * np.exp((x - x0) * slope)
_exponential_Origin(x0, y0, slope, x) == Finite(RInt(y0), RInt(IF y0 = 0 THEN 0 ELSE x * slope))
_exponential(x0, y0, slope, x) ==
    Finite(RInt(y0), RInt(IF y0 = 0 THEN 0 ELSE (x - x0) * slope))

\* self.func(x0, y0, slope, x)
func(o, x) ==
    IF o.func = "_powerlaw" THEN _powerlaw(o.x0, o.y0, o.slope, x)
    ELSE _exponential(o.x0, o.y0, o.slope, x)

\* list[b] for a list of two elements and a boolean index b
Index(list, b) == list[IF b THEN 2 ELSE 1]

\* FittingLine.draw: the line is drawn between the two ends of the x-axis
draw(o) == [o EXCEPT !.line = [j \in 1..2 |-> func(o, XLim[j])]]

\* FittingLine.update_legend: the label shows the law and the slope
update_legend(o) == draw([o EXCEPT !.label = [law |-> o.law, slope |-> o.slope]])

\* FittingLine.update_law
update_law_NoSwitch(o) == update_legend(o)
update_law(o) ==
    LET law == Index(<<"powerlaw", "exponential">>, o.law = "powerlaw")
    IN  update_legend([o EXCEPT
            !.law = law,
            !.func = IF law = "powerlaw" THEN "_powerlaw" ELSE "_exponential",
            !.xscale = Index(<<"linear", "log">>, law = "powerlaw")])

\* FittingLine.update_slope
update_slope(o, val) == update_legend([o EXCEPT !.slope = val])

\* FittingLine.on_click
on_click(o, event) ==
    IF event.inaxes # "ax" THEN o
    ELSE IF o.on_legend THEN o
    ELSE IF event.dblclick THEN update_law(o)
    ELSE draw([o EXCEPT !.x0 = event.xdata, !.y0 = event.ydata])

\* FittingLine.on_pick
on_pick(o, event) == IF event.artist = "legend" THEN [o EXCEPT !.on_legend = TRUE] ELSE o

\* FittingLine.on_release
on_release(o, event) ==
    IF ~o.on_legend THEN o
    ELSE [o EXCEPT !.x_legend = event.xdata, !.y_legend = event.ydata, !.on_legend = FALSE]

\* FittingLine.on_scroll
on_scroll(o, event) == [o EXCEPT !.slider_visible = (@ = FALSE)]

\* an event of the canvas, as the callbacks read it
Event(name, inaxes, dblclick, xdata, ydata, artist) ==
    [name |-> name, inaxes |-> inaxes, dblclick |-> dblclick, xdata |-> xdata,
     ydata |-> ydata, artist |-> artist]
NoEvent == Event("none", "none", FALSE, 0, 0, "none")

\* positions of the mouse over the axes of the line
OverAxes(x, y) == x \in XData /\ y \in YData /\ (fit.xscale = "log" => x > 0)

\* FittingLine.__init__: x0 and y0 start in the middle of the logarithmic
\* axes, the law is set to 'exponential' and update_law is called
FittingLine_init(slope) ==
    update_law([pc |-> "live", x0 |-> 2, y0 |-> 3, slope |-> slope, x_legend |-> 2,
                y_legend |-> 5, on_legend |-> FALSE, slider_visible |-> TRUE,
                law |-> "exponential", func |-> "none", xscale |-> "log",
                label |-> [law |-> "none", slope |-> slope], line |-> <<NotFinite, NotFinite>>,
                event |-> NoEvent])

\* button_press_event, over the axes of the line or over those of the slider
On_Click(inaxes, dblclick, x, y) ==
    /\ fit.pc = "live"
    /\ IF inaxes = "ax" THEN OverAxes(x, y) ELSE x = 0 /\ y = 0
    /\ LET event == Event("button_press_event", inaxes, dblclick, x, y, "none")
       IN  fit' = [on_click(fit, event) EXCEPT !.event = event]
    /\ UNCHANGED <<analysis, query, radial, modes, envcall, std, circle, run>>

\* pick_event on the legend or on another artist of the figure
On_Pick(artist) ==
    /\ fit.pc = "live"
    /\ LET event == Event("pick_event", "ax", FALSE, 0, 0, artist)
       IN  fit' = [on_pick(fit, event) EXCEPT !.event = event]
    /\ UNCHANGED <<analysis, query, radial, modes, envcall, std, circle, run>>

\* button_release_event over the axes of the line
On_Release(x, y) ==
    /\ fit.pc = "live"
    /\ OverAxes(x, y)
    /\ LET event == Event("button_release_event", "ax", FALSE, x, y, "none")
       IN  fit' = [on_release(fit, event) EXCEPT !.event = event]
    /\ UNCHANGED <<analysis, query, radial, modes, envcall, std, circle, run>>

\* scroll_event
On_Scroll ==
    /\ fit.pc = "live"
    /\ LET event == Event("scroll_event", "ax", FALSE, 0, 0, "none")
       IN  fit' = [on_scroll(fit, event) EXCEPT !.event = event]
    /\ UNCHANGED <<analysis, query, radial, modes, envcall, std, circle, run>>

\* the slider is moved to val: self.slider.on_changed(self.update_slope)
Slider_Changed(val) ==
    /\ fit.pc = "live"
    /\ fit' = [update_slope(fit, val) EXCEPT
                    !.event = Event("slider", "slider_ax", FALSE, 0, 0, "none")]
    /\ UNCHANGED <<analysis, query, radial, modes, envcall, std, circle, run>>

InitFit ==
    /\ IdleAnalysis
    /\ circle = Idle
    /\ run = Idle
    /\ fit \in {FittingLine_init(slope) : slope \in Slopes}
    /\ query = Idle
    /\ radial = Idle
    /\ modes = Idle
    /\ envcall = Idle
    /\ std = Idle

NextFit ==
    \/ \E inaxes \in {"ax", "slider_ax"}, dblclick \in BOOLEAN, x \in XData, y \in YData \cup {0} :
            On_Click(inaxes, dblclick, x, y)
    \/ \E artist \in {"legend", "line"} : On_Pick(artist)
    \/ \E x \in XData, y \in YData : On_Release(x, y)
    \/ On_Scroll
    \/ \E val \in Slopes : Slider_Changed(val)

\* a fitting line and the events of its figure
SpecFit == InitFit /\ [][NextFit]_vars

\* the step handles a click over the axes of the line, the legend not being
\* dragged
ClickStep(dblclick) ==
    /\ fit'.event.name = "button_press_event"
    /\ fit'.event.inaxes = "ax"
    /\ fit'.event.dblclick = dblclick
    /\ ~fit.on_legend

Plain(y) == Finite(RInt(y), RInt(0))

C20_SingleClick ==
    [][ClickStep(FALSE) =>
            /\ fit'.x0 = fit'.event.xdata
            /\ fit'.y0 = fit'.event.ydata
            /\ fit'.law = fit.law
            /\ fit'.slope = fit.slope
            /\ fit'.line = [j \in 1..2 |-> func(fit', XLim[j])]
            /\ fit'.x0 # 0 =>
                /\ func(fit', fit'.x0) = Plain(fit'.y0)
                /\ _powerlaw(fit'.x0, fit'.y0, fit'.slope, fit'.x0) = Plain(fit'.y0)
                /\ _exponential(fit'.x0, fit'.y0, fit'.slope, fit'.x0) = Plain(fit'.y0)]_vars

\* a click has just moved a line of non-zero slope, under the exponential
\* law, to a point away from the axis x = 0
C20_Witness ==
    /\ fit.pc = "live"
    /\ fit.event.name = "button_press_event"
    /\ fit.event.inaxes = "ax"
    /\ ~fit.event.dblclick
    /\ ~fit.on_legend
    /\ fit.law = "exponential"
    /\ fit.slope = 2
    /\ fit.x0 = 3
    /\ fit.y0 = 2
    /\ fit.x0 = fit.event.xdata
    /\ fit.line[1] # fit.line[2]

(***************************************************************************)
(* plot/mpl_tools.py: GridCircle                                           *)
(*                                                                         *)
(* The extent of the grid is (-2, 2, -2, 2) and the mouse points at whole  *)
(* coordinates.  A radius is carried by its square, so that the distance   *)
(* np.sqrt(np.sum(d**2)) is the whole number np.sum(d**2).                 *)
(***************************************************************************)
Extent == (-2)..2
Centres == {<<0, 0>>, <<1, -1>>}
\* values the slider can be dragged to: squares of 0, 1 and min|extent| = 2
SliderValues == {0, 1, 4}
Axes == {"ax_grid", "ax_plot", "colormap_ax", "slider_ax", "none"}

\* np.sqrt(np.sum((np.array([xdata, ydata]) - self.circle_centre)**2))
EuclideanDistance(p, c) == (p[1] - c[1]) * (p[1] - c[1]) + (p[2] - c[2]) * (p[2] - c[2])

\* GridCircle.draw: the values along the circle of radius self.radius are
\* plotted, the circle takes that radius and both canvases are drawn
GridCircle_draw(o) ==
    [o EXCEPT !.line_radius = o.radius, !.circle_radius = o.radius, !.draws = o.draws + 1]

\* GridCircle.update_slider
update_slider(o, event) == GridCircle_draw([o EXCEPT !.radius = o.slider_val])

\* matplotlib Slider.set_val: the value is stored and the functions given to
\* on_changed are called with it
set_val(o, val) == update_slider([o EXCEPT !.slider_val = val], val)

\* GridCircle.update_grid; self.slider is bound by __init__ only when
\* show_slider is true, and an AttributeError leaves the handler before draw
update_grid(o, event) ==
    IF event.inaxes # "ax_grid" THEN o
    ELSE LET moved == [o EXCEPT !.radius =
                            EuclideanDistance(<<event.xdata, event.ydata>>, o.circle_centre)]
         IN  IF "slider" \notin moved.attributes THEN [moved EXCEPT !.exc = "AttributeError"]
             ELSE GridCircle_draw(set_val(moved, moved.radius))

\* GridCircle.__init__: radius 0, the slider only if show_slider, then draw
GridCircle_init(circle_centre, show_slider) ==
    GridCircle_draw(
        [pc |-> "live", show_slider |-> show_slider, circle_centre |-> circle_centre,
         radius |-> 0, circle_radius |-> 0, line_radius |-> 0, slider_val |-> 0,
         attributes |-> {"extent", "grid", "circle_centre", "radius", "points_theta", "theta",
                         "show_slider", "fig", "ax_grid", "ax_plot", "min", "max", "norm",
                         "scalarmap", "colormap_ax", "colormap", "circle", "line"}
                            \cup (IF show_slider THEN {"slider_ax", "slider"} ELSE {}),
         draws |-> 0, exc |-> "", event |-> NoEvent])

\* button_press_event somewhere on the figure: the callback connected at
\* line 296 runs, whatever the axes
Circle_Click(inaxes, x, y) ==
    /\ circle.pc = "live"
    /\ inaxes = "slider_ax" => circle.show_slider
    /\ inaxes = "none" => x = 0 /\ y = 0
    /\ LET event == Event("button_press_event", inaxes, FALSE, x, y, "none")
       IN  circle' = update_grid([circle EXCEPT !.event = event, !.draws = 0, !.exc = ""], event)
    /\ UNCHANGED <<analysis, query, radial, modes, envcall, std, fit, run>>

\* the slider is dragged to val: self.slider.on_changed(self.update_slider)
Circle_Slider(val) ==
    /\ circle.pc = "live"
    /\ circle.show_slider
    /\ circle' = set_val([circle EXCEPT !.event = Event("slider", "slider_ax", FALSE, 0, 0, "none"),
                                        !.draws = 0, !.exc = ""], val)
    /\ UNCHANGED <<analysis, query, radial, modes, envcall, std, fit, run>>

InitCircle ==
    /\ IdleAnalysis
    /\ circle \in {GridCircle_init(c, b) : c \in Centres, b \in BOOLEAN}
    /\ query = Idle
    /\ radial = Idle
    /\ modes = Idle
    /\ envcall = Idle
    /\ std = Idle
    /\ fit = Idle
    /\ run = Idle

NextCircle ==
    \/ \E inaxes \in Axes, x \in Extent, y \in Extent : Circle_Click(inaxes, x, y)
    \/ \E val \in SliderValues : Circle_Slider(val)

\* a grid with its circle and the events of its figure
SpecCircle == InitCircle /\ [][NextCircle]_vars

\* the step handles a click over the axes of the grid, or elsewhere
GridClick(inside) ==
    /\ circle'.event.name = "button_press_event"
    /\ (circle'.event.inaxes = "ax_grid") = inside

ClickRadius ==
    /\ GridClick(TRUE) =>
        /\ circle'.radius =
            EuclideanDistance(<<circle'.event.xdata, circle'.event.ydata>>, circle.circle_centre)
        /\ circle'.exc = ""
        /\ circle'.draws >= 1
        /\ circle'.circle_radius = circle'.radius
        /\ circle'.line_radius = circle'.radius
    /\ GridClick(FALSE) => circle'.radius = circle.radius

\* C21: a click at (x, y) over the axes of the grid sets the radius to the
\* Euclidean distance between (x, y) and circle_centre and redraws the
\* circle with it, whether the instance has a slider or not; a click
\* anywhere else leaves the radius unchanged.
C21_ClickRadius == [][ClickRadius]_vars

\* the same for the instances created with show_slider=True only
WithSlider_ClickRadius == [][circle.show_slider => ClickRadius]_vars

(***************************************************************************)
(* Relative positions of the neighbours in strain_vorticity.               *)
(***************************************************************************)
\* coordinate c of the raw offset positions - point of particle i from the
\* query point k, and of the relative position strain_vorticity uses
RawOffset(i, k, c) == positions[i][c] - grid_points[k][c]
Used(i, k, c) == centred(RawOffset(i, k, c), box_size)

\* C22: each component of the relative positions of the neighbours used by
\* strain_vorticity is ((position - point + box_size/2) mod box_size)
\* - box_size/2: it lies in [-box_size/2, box_size/2) and differs from the
\* raw offset by a whole number of box sizes.
C22_MinimumImage ==
    pc \in {"svg_map", "done"} =>
        \A k \in Latest : \A i \in Neighbours(k) : \A c \in 1..2 :
            /\ Used(i, k, c) = MinImage(RawOffset(i, k, c), box_size)
            /\ -(box_size \div 2) <= Used(i, k, c)
            /\ Used(i, k, c) < box_size \div 2
            /\ (Used(i, k, c) - RawOffset(i, k, c)) % box_size = 0

\* a point sampled with a neighbour across the boundary of the box, one box
\* size away from its raw offset, and a neighbour at -box_size/2 exactly
C22_Witness ==
    /\ pc \in {"svg_map", "done"}
    /\ \E k \in Sampled :
        /\ samples[k].kind = "return"
        /\ \E i \in Neighbours(k), c \in 1..2 :
            Abs(Used(i, k, c) - RawOffset(i, k, c)) = box_size
        /\ \E i \in Neighbours(k), c \in 1..2 : Used(i, k, c) = -(box_size \div 2)

(***************************************************************************)
(* analysis/css.py and analysis/cuu.py, scripts: one call of               *)
(* strain_vorticity_grid or of displacement_grid for each time origin.     *)
(***************************************************************************)
\* the frames of a trajectory with two time origins and a lag of one frame
SeriesFrames == 0..2
SeriesTimes == <<0, 1>>
SeriesSites == {<<-1, -1>>, <<1, 0>>}
SeriesDisps == {<<0, 0>>, <<1, 0>>}

\* the particles start on SeriesSites and move by SeriesDisps at each frame
SeriesTrajectories ==
    {[f \in SeriesFrames |-> [i \in Particles |->
        IF f = 0 THEN s[i]
        ELSE IF f = 1 THEN <<s[i][1] + d[i][1], s[i][2] + d[i][2]>>
        ELSE <<s[i][1] + d[i][1] + e[i][1], s[i][2] + d[i][2] + e[i][2]>>]] :
        s \in [Particles -> SeriesSites], d \in [Particles -> SeriesDisps],
        e \in [Particles -> SeriesDisps]}

\* the time origin of the call in progress
Time == run.times[run.next]

\* map(lambda time: ..._grid(..., time, dt, ...), times) calls the function
\* for the next time origin: the call starts with locals of its own
Series_Call ==
    /\ run.pc = "live"
    /\ pc = "script"
    /\ run.next <= Len(run.times)
    /\ pc' = (IF run.fn = "strain_vorticity_grid" THEN "svg_start" ELSE "dg_start")
    /\ positions' = <<>>
    /\ neighbours_grid' = NoGrid
    /\ samples' = <<>>
    /\ ret' = NotCalled
    /\ UNCHANGED <<u_traj, ENDPOINT, sigma, main, tools>>

\* the call returns its grids to map, which goes on to the next time
\* origin, or raises, which ends the script
Series_Collect ==
    /\ run.pc = "live"
    /\ pc = "done"
    /\ IF ret.kind = "raise"
       THEN /\ run' = [run EXCEPT !.pc = "raised"]
            /\ pc' = "stopped"
       ELSE /\ run' = [run EXCEPT !.out = Append(run.out, ret.value), !.next = run.next + 1]
            /\ pc' = "script"
    /\ UNCHANGED <<u_traj, ENDPOINT, sigma, positions, neighbours_grid, samples, ret, main,
                   query, radial, modes, envcall, std, fit, circle>>

InitSeries ==
    /\ u_traj \in SeriesTrajectories
    /\ ENDPOINT \in BOOLEAN
    /\ sigma = 1
    /\ pc = "script"
    /\ positions = <<>>
    /\ neighbours_grid = NoGrid
    /\ samples = <<>>
    /\ ret = NotCalled
    /\ main = NoMain
    /\ run \in {[pc |-> "live", fn |-> f, times |-> SeriesTimes, dt |-> 1, next |-> 1,
                 out |-> <<>>] : f \in {"strain_vorticity_grid", "displacement_grid"}}
    /\ query = Idle
    /\ radial = Idle
    /\ modes = Idle
    /\ envcall = Idle
    /\ std = Idle
    /\ fit = Idle
    /\ circle = Idle

NextSeries ==
    \/ Series_Call
    \/ /\ run.pc = "live"
       /\ run.next <= Len(run.times)
       /\ \/ SVG_Build(Time, run.dt)
          \/ SVG_Sample(Time, run.dt)
          \/ SVG_Return
          \/ DG_Call(Time, run.dt)
    \/ Series_Collect

\* a script computing the grids of each of its time origins in turn
SpecSeries == InitSeries /\ [][NextSeries]_vars

\* the wrapped positions of the frame of the call in progress, and the
\* neighbours grid of these positions
OwnPositions == w_traj(prep_frames + Time + run.dt * (IF ENDPOINT THEN 1 ELSE 0))
OwnGrid ==
    NeighboursGrid(OwnPositions, box_size,
                   IF run.fn = "strain_vorticity_grid" THEN R_CUT ELSE dL \div 2)

\* a call that has gone past its first lines holds the neighbours grid of
\* its own frame, and each point sample is the one made with that grid and
\* those positions
BuildsOwnGrid ==
    pc \in {"svg_map", "done"} =>
        /\ positions = OwnPositions
        /\ neighbours_grid = OwnGrid
        /\ run.fn = "strain_vorticity_grid" =>
            \A k \in Latest :
                samples[k] = strain_vorticity(grid_points[k], Time, run.dt, OwnPositions,
                                              u_traj, sigma, R_CUT, box_size, OwnGrid)

\* C23: every call of strain_vorticity_grid or displacement_grid builds a
\* new neighbours grid from the wrapped positions of its own frame, and
\* every point sample of the call uses that grid with those positions;
\* no neighbours grid built for one time origin is used for another.
C23_OwnNeighboursGrid == run.pc \in {"live", "raised"} => BuildsOwnGrid

\* the same for the calls of strain_vorticity_grid only
Css_OwnNeighboursGrid == run.fn = "strain_vorticity_grid" => BuildsOwnGrid

\* the second time origin of strain_vorticity_grid is being sampled on a
\* frame that differs from the frame of the first
Css_SecondOrigin ==
    /\ run.fn = "strain_vorticity_grid"
    /\ run.next = 2
    /\ pc = "svg_map"
    /\ Len(samples) >= 1
    /\ positions # w_traj(prep_frames + run.times[1] + run.dt * (IF ENDPOINT THEN 1 ELSE 0))

(***************************************************************************)
(* Point evaluations in any order.  The scripts evaluate the query points  *)
(* of a frame, and the time origins, one after the other; here the next    *)
(* point and the next time origin are any of those left.                   *)
(***************************************************************************)
\* the first particle starts on SeriesSites and moves by SeriesDisps, the
\* others stay one step out of two
OrderTrajectories ==
    {[f \in SeriesFrames |-> [i \in Particles |->
        IF i = 1
        THEN (IF f = 0 THEN s
              ELSE IF f = 1 THEN <<s[1] + d[1], s[2] + d[2]>>
              ELSE <<s[1] + d[1] + e[1], s[2] + d[2] + e[2]>>)
        ELSE (IF f = 1 THEN <<0, -1>> ELSE <<-1, -1>>)]] :
        s \in SeriesSites, d \in SeriesDisps, e \in SeriesDisps}

PointEvaluations == {"strain_vorticity", "displacement"}

\* cut-off radius of the neighbours grid: r_cut in strain_vorticity_grid,
\* dL/2 in displacement_grid
cutoff(fn) == IF fn = "strain_vorticity" THEN R_CUT ELSE dL \div 2

\* the call made at a query point by the lambda handed to map
evaluate(fn, point, time, dt, pos, ng) ==
    IF fn = "strain_vorticity"
    THEN strain_vorticity(point, time, dt, pos, u_traj, sigma, R_CUT, box_size, ng)
    ELSE displacement(point, time, dt, pos, u_traj, dL, box_size, ng)

\* a time origin is taken: positions and neighbours grid of its frame
Order_Call(time) ==
    /\ run.pc = "live"
    /\ pc = "script"
    /\ time \in run.times \ DOMAIN run.out
    /\ positions' = w_traj(prep_frames + time + run.dt * (IF ENDPOINT THEN 1 ELSE 0))
    /\ neighbours_grid' = NeighboursGrid(positions', box_size, cutoff(run.fn))
    /\ run' = [run EXCEPT !.time = time, !.values = [k \in DOMAIN grid_points |-> NotCalled]]
    /\ pc' = "map"
    /\ UNCHANGED <<u_traj, ENDPOINT, sigma, samples, ret, main,
                   query, radial, modes, envcall, std, fit, circle>>

\* a point evaluation that recentres the array of positions in place
Order_Sample_InPlace(k) ==
    /\ run.pc = "live"
    /\ pc = "map"
    /\ run.values[k] = NotCalled
    /\ run' = [run EXCEPT !.values[k] =
                    evaluate(run.fn, grid_points[k], run.time, run.dt, positions, neighbours_grid)]
    /\ positions' = [i \in DOMAIN positions |-> relative_positions(positions[i], grid_points[k], box_size)]
    /\ UNCHANGED <<u_traj, ENDPOINT, sigma, pc, neighbours_grid, samples, ret, main,
                   query, radial, modes, envcall, std, fit, circle>>

\* the point evaluation at grid point k: it assigns locals only, the
\* positions, the neighbours grid and the trajectory are read
Order_Sample(k) ==
    /\ run.pc = "live"
    /\ pc = "map"
    /\ run.values[k] = NotCalled
    /\ run' = [run EXCEPT !.values[k] =
                    evaluate(run.fn, grid_points[k], run.time, run.dt, positions, neighbours_grid)]
    /\ UNCHANGED <<u_traj, ENDPOINT, sigma, pc, positions, neighbours_grid, samples, ret, main,
                   query, radial, modes, envcall, std, fit, circle>>

\* every point has returned: the grids of the time origin
Order_Return ==
    /\ run.pc = "live"
    /\ pc = "map"
    /\ \A k \in DOMAIN grid_points : run.values[k].kind = "return"
    /\ run' = [run EXCEPT !.out = [t \in DOMAIN run.out \cup {run.time} |->
                    IF t = run.time
                    THEN [g \in 1..Len(run.values[1].value) |->
                            correct_grid([k \in DOMAIN grid_points |-> run.values[k].value[g]])]
                    ELSE run.out[t]]]
    /\ pc' = "script"
    /\ UNCHANGED <<u_traj, ENDPOINT, sigma, positions, neighbours_grid, samples, ret, main,
                   query, radial, modes, envcall, std, fit, circle>>

InitOrder ==
    /\ u_traj \in OrderTrajectories
    /\ ENDPOINT \in BOOLEAN
    /\ sigma = 1
    /\ pc = "script"
    /\ positions = <<>>
    /\ neighbours_grid = NoGrid
    /\ samples = <<>>
    /\ ret = NotCalled
    /\ main = NoMain
    /\ run \in {[pc |-> "live", fn |-> f, times |-> {SeriesTimes[j] : j \in DOMAIN SeriesTimes},
                 dt |-> 1, time |-> 0, values |-> <<>>, out |-> <<>>] : f \in PointEvaluations}
    /\ query = Idle
    /\ radial = Idle
    /\ modes = Idle
    /\ envcall = Idle
    /\ std = Idle
    /\ fit = Idle
    /\ circle = Idle

NextOrder ==
    \/ \E time \in SeriesFrames : Order_Call(time)
    \/ \E k \in DOMAIN grid_points : Order_Sample(k)
    \/ Order_Return

\* the query points and the time origins taken in any order
SpecOrder == InitOrder /\ [][NextOrder]_vars

\* what the frame of time origin t alone gives at grid point k
FramePositions(t) == w_traj(prep_frames + t + run.dt * (IF ENDPOINT THEN 1 ELSE 0))
OwnValue(t, k) ==
    evaluate(run.fn, grid_points[k], t, run.dt, FramePositions(t),
             NeighboursGrid(FramePositions(t), box_size, cutoff(run.fn)))

\* C24: a point evaluation modifies neither the positions nor the
\* neighbours grid, so that whatever the order in which the query points
\* have been evaluated each has the value its frame alone gives, and
\* whatever the order in which the time origins have been processed each
\* has the grid of these values.
C24_OrderIndependent ==
    run.pc = "live" =>
        /\ pc = "map" =>
            /\ positions = FramePositions(run.time)
            /\ neighbours_grid = NeighboursGrid(FramePositions(run.time), box_size, cutoff(run.fn))
            /\ \A k \in DOMAIN grid_points :
                run.values[k] # NotCalled => run.values[k] = OwnValue(run.time, k)
        /\ pc = "script" =>
            \A t \in DOMAIN run.out : \A g \in DOMAIN run.out[t] :
                run.out[t][g] = correct_grid([k \in DOMAIN grid_points |-> OwnValue(t, k).value[g]])

\* the later time origin has been processed first and the last grid point
\* of the earlier one evaluated before its first, with a non-zero strain
C24_Witness ==
    /\ run.pc = "live"
    /\ run.fn = "strain_vorticity"
    /\ pc = "map"
    /\ run.time = 0
    /\ 1 \in DOMAIN run.out
    /\ run.values[1] = NotCalled
    /\ \E k \in DOMAIN grid_points :
        /\ k > 1
        /\ run.values[k].kind = "return"
        /\ run.values[k].value[1] # RInt(0)

=============================================================================
